---- MODULE Spec2Model ----
(***************************************************************************)
(* Model of the flow-forge workflow engine: the DAG executor               *)
(* (workflow/executor.py), the simulator services it dispatches to         *)
(* (simulator/services.py), failure injection (simulator/failures.py) and  *)
(* the planner loop that drives them (workflow/pipeline.py).               *)
(*                                                                         *)
(* Strings are sequences of tokens.  A token is either a piece of literal  *)
(* text or one template "{{x}}"; str.replace of a template is replacement  *)
(* of the matching tokens.  Adjacent literal tokens are merged, so that    *)
(* equal Python strings are equal token sequences.                         *)
(***************************************************************************)
EXTENDS Integers, Sequences, FiniteSets, TLC

VARIABLES
    workflow,               \* the Workflow handed to WorkflowExecutor.execute
    services,               \* executor.services: service tag -> implementation
    failure_config,         \* executor.failure_config
    state,                  \* SimulatorState
    trace,                  \* ExecutionTrace.steps
    node_outputs,           \* executor.node_outputs (insertion-ordered dict)
    pc,                     \* position inside execute
    order,                  \* local `order` of execute
    pos,                    \* index of the loop `for node_id in order`
    failed_nodes,           \* local set failed_nodes
    skipped_nodes,          \* local set skipped_nodes
    successful,             \* local counter
    failed,                 \* local counter
    skipped,                \* local counter
    dependency_violations,  \* local list
    report,                 \* the ExecutionReport returned (or NoReport)
    raised,                 \* the exception that left execute ("none" if none)
    calls,                  \* history: every action_fn(node.id, **params) made
    failures,               \* history: the exception behind every failed node
    variant,                \* which generate_workflow runs: "pipeline", "workflow_agent"
    run_agent,              \* what the name run_agent is bound to, per module
    settings,               \* get_settings(): connector_mode, configured credentials
    workflow_store,         \* the WorkflowStore argument and the files it holds
    custom_connectors,      \* the service names with a file in CUSTOM_CONNECTOR_DIR
    workspace,              \* does the directory made by mkdtemp exist
    workflow_file,          \* content of workspace/workflow.json
    ppc,                    \* position inside generate_workflow
    attempt_idx,            \* loop variable of the repair loop
    final_report,           \* local final_report (report in workflow_agent.py)
    final_workflow,         \* local final_workflow (workflow in workflow_agent.py)
    completed_normally,     \* local completed_normally
    events,                 \* every event yielded to the consumer
    log,                    \* history: agent runs, parses, executions, reports
    http_clients,           \* every httpx.AsyncClient made: "open" or "closed"
    connector_file,         \* connector.py in the workspace of the connector builder
    builtin_registry,       \* registry._BUILTIN_REGISTRY: service name -> class
    registry_cache,         \* ConnectorRegistry._cache: service name -> instance
    instances,              \* the number of connector instances constructed
    custom_dir,             \* the files of CUSTOM_CONNECTOR_DIR: stem -> content
    copy_pc,                \* position inside shutil.copy2 of build_connector
    proc,                   \* the child of subprocess.Popen, its group, its pipes
    th,                     \* position of the caller and of the two reader threads
    wait_lock,              \* who holds wait_lock in _run_command_sync ("free": nobody)
    total,                  \* local `total` of _read_capped, per stream
    pipes_closed,           \* has _close_pipes closed proc.stdout and proc.stderr
    now,                    \* time.monotonic(), in seconds since Popen
    deadline,               \* when the timed wait a thread is in gives up
    signals,                \* history: every os.killpg made
    cmd_result,             \* what _run_command_sync returned
    heap,                   \* the objects the service layers are made of
    layers,                 \* history: every service layer assembled
    run_layer,              \* run -> the layer its executor works on (0: none)
    entropy,                \* what differs from one execution to the next: the
                            \* base of the uuid4 values, the hash seed
    first_run               \* history: the first of two executions compared

exec_vars == <<workflow, services, failure_config, state, trace, node_outputs,
               pc, order, pos, failed_nodes, skipped_nodes, successful, failed,
               skipped, dependency_violations, report, raised, calls, failures>>

plan_vars == <<variant, run_agent, settings, workflow_store, custom_connectors,
               workspace, workflow_file, ppc, attempt_idx, final_report,
               final_workflow, completed_normally, events, log>>

\* the state of the components around the executor and the planner
reg_vars == <<builtin_registry, registry_cache, instances, custom_dir, copy_pc>>

cmd_vars == <<proc, th, wait_lock, total, pipes_closed, now, deadline, signals,
              cmd_result>>

layer_vars == <<heap, layers, run_layer>>

twin_vars == <<entropy, first_run>>

other_vars == <<connector_file, reg_vars, cmd_vars, layer_vars, twin_vars>>

side_vars == <<http_clients, other_vars>>

-----------------------------------------------------------------------------
(* Strings and values *)

Lit(x) == [tm |-> FALSE, x |-> x]
Tmpl(x) == [tm |-> TRUE, x |-> x]

RECURSIVE Norm(_)
Norm(s) ==
    IF s = <<>> THEN <<>>
    ELSE IF ~s[1].tm /\ s[1].x = "" THEN Norm(Tail(s))
    ELSE IF Len(s) >= 2 /\ ~s[1].tm /\ ~s[2].tm
         THEN Norm(<<Lit(s[1].x \o s[2].x)>> \o SubSeq(s, 3, Len(s)))
    ELSE <<s[1]>> \o Norm(Tail(s))

\* a Python str made of literal text / of one template
S(x) == Norm(<<Lit(x)>>)
T(x) == <<Tmpl(x)>>

\* a Python value: ty is "str" (tokens t), "int" (n), "none" or "list" (empty)
StrV(str) == [ty |-> "str", t |-> Norm(str), n |-> 0]
NumV(k) == [ty |-> "int", t |-> <<>>, n |-> k]
NoneV == [ty |-> "none", t |-> <<>>, n |-> 0]
EmptyListV == [ty |-> "list", t |-> <<>>, n |-> 0]

IsStr(v) == v.ty = "str"

\* str(val)
PyStr(v) ==
    CASE v.ty = "str" -> v.t
      [] v.ty = "int" -> S(ToString(v.n))
      [] v.ty = "none" -> S("None")
      [] OTHER -> S("[]")

\* bool(val)
Truthy(v) ==
    CASE v.ty = "str" -> v.t # <<>>
      [] v.ty = "int" -> v.n # 0
      [] OTHER -> FALSE

\* `"{{" in value`
HasBraces(str) == \E i \in 1..Len(str) : str[i].tm

\* value.replace("{{key}}", repl)
RECURSIVE ReplaceRaw(_, _, _)
ReplaceRaw(str, key, repl) ==
    IF str = <<>> THEN <<>>
    ELSE (IF Head(str) = Tmpl(key) THEN repl ELSE <<Head(str)>>)
         \o ReplaceRaw(Tail(str), key, repl)

Replace(str, key, repl) == Norm(ReplaceRaw(str, key, repl))

\* dict.get(name, default) on a keyword bag (a function from names to values)
Get(params, name, dflt) == IF name \in DOMAIN params THEN params[name] ELSE dflt

\* an insertion-ordered dict is a sequence of [k, v] pairs with distinct keys
Put(d, k, v) ==
    IF \E i \in 1..Len(d) : d[i].k = k
    THEN [i \in 1..Len(d) |-> IF d[i].k = k THEN [k |-> k, v |-> v] ELSE d[i]]
    ELSE Append(d, [k |-> k, v |-> v])

Has(d, k) == \E i \in 1..Len(d) : d[i].k = k
Lookup(d, k) == d[CHOOSE i \in 1..Len(d) : d[i].k = k].v
Keys(d) == {d[i].k : i \in 1..Len(d)}

-----------------------------------------------------------------------------
(* WorkflowExecutor._resolve_parameters *)

\* for key, val in workflow.parameters.items(): value = value.replace(...)
RECURSIVE SubstGlobals(_, _)
SubstGlobals(str, globals) ==
    IF globals = <<>> THEN str
    ELSE SubstGlobals(Replace(str, Head(globals).k, PyStr(Head(globals).v)),
                      Tail(globals))

\* mutant: upstream outputs are not substituted
SubstOutputsNone(str, upstream_id, outputs) == str

\* for out_key, out_val in outputs.items(): value = value.replace(...)
RECURSIVE SubstOutputs(_, _, _)
SubstOutputs(str, upstream_id, outputs) ==
    IF outputs = <<>> THEN str
    ELSE SubstOutputs(
            Replace(str, upstream_id \o "." \o Head(outputs).k, PyStr(Head(outputs).v)),
            upstream_id, Tail(outputs))

\* for upstream_id, outputs in self.node_outputs.items(): ...
RECURSIVE SubstUpstream(_, _)
SubstUpstream(str, outs) ==
    IF outs = <<>> THEN str
    ELSE SubstUpstream(SubstOutputs(str, Head(outs).k, Head(outs).v.out), Tail(outs))

ResolveValue(value, globals, outs) ==
    IF IsStr(value) /\ HasBraces(value.t)
    THEN StrV(SubstUpstream(SubstGlobals(value.t, globals), outs))
    ELSE value

\* params[param.name] = value, in list order (a later duplicate name wins)
RECURSIVE ResolveList(_, _, _)
ResolveList(plist, globals, outs) ==
    IF plist = <<>> THEN <<>>
    ELSE LET p == plist[Len(plist)]
             rest == ResolveList(SubSeq(plist, 1, Len(plist) - 1), globals, outs)
         IN  (p.name :> ResolveValue(p.value, globals, outs)) @@ rest

\* outputs.items() raises AttributeError when a recorded output is not a dict
\* (a coroutine object); it is reached only through a string holding "{{"
ResolveRaises(node, outs) ==
    /\ \E i \in 1..Len(node.parameters) :
          IsStr(node.parameters[i].value) /\ HasBraces(node.parameters[i].value.t)
    /\ \E j \in 1..Len(outs) : outs[j].v.coro

_resolve_parameters(node, wf, outs) ==
    IF ResolveRaises(node, outs)
    THEN [exc |-> "AttributeError", params |-> <<>>]
    ELSE [exc |-> "none", params |-> ResolveList(node.parameters, wf.parameters, outs)]

-----------------------------------------------------------------------------
(* WorkflowExecutor._topological_sort (Kahn's algorithm) *)

all_ids(wf) == [i \in 1..Len(wf.nodes) |-> wf.nodes[i].id]
IdSet(wf) == {wf.nodes[i].id : i \in 1..Len(wf.nodes)}

\* in_degree[node.id] += 1 for every entry of depends_on
RECURSIVE in_degree(_, _)
in_degree(nodes, id) ==
    IF nodes = <<>> THEN 0
    ELSE (IF Head(nodes).id = id THEN Len(Head(nodes).depends_on) ELSE 0)
         + in_degree(Tail(nodes), id)

\* dependents[dep].append(node.id)
RECURSIVE dependents(_, _)
dependents(nodes, dep) ==
    IF nodes = <<>> THEN <<>>
    ELSE [i \in 1..Len(SelectSeq(Head(nodes).depends_on, LAMBDA d : d = dep))
              |-> Head(nodes).id]
         \o dependents(Tail(nodes), dep)

\* for dependent in dependents[nid]: in_degree[dependent] -= 1; if 0: queue.append
RECURSIVE Relax(_, _, _)
Relax(ds, indeg, queue) ==
    IF ds = <<>> THEN [indeg |-> indeg, queue |-> queue]
    ELSE LET d == Head(ds)
             indeg2 == [indeg EXCEPT ![d] = @ - 1]
         IN  Relax(Tail(ds), indeg2,
                   IF indeg2[d] = 0 THEN Append(queue, d) ELSE queue)

\* while queue: nid = queue.popleft(); order.append(nid); ...
RECURSIVE KahnLoop(_, _, _, _)
KahnLoop(wf, queue, ord, indeg) ==
    IF queue = <<>> THEN ord
    ELSE LET nid == Head(queue)
             r == Relax(dependents(wf.nodes, nid), indeg, Tail(queue))
         IN  KahnLoop(wf, r.queue, Append(ord, nid), r.indeg)

\* mutant: the queue is filled by iterating set(all_ids), whose order follows
\* the hash seed of the process
KahnOrderSetQueue(wf) ==
    LET indeg0 == [id \in IdSet(wf) |-> in_degree(wf.nodes, id)]
        listed == SelectSeq(all_ids(wf), LAMBDA nid : indeg0[nid] = 0)
        queue0 == IF entropy = 0 THEN listed
                  ELSE [i \in 1..Len(listed) |-> listed[Len(listed) + 1 - i]]
    IN  KahnLoop(wf, queue0, <<>>, indeg0)

KahnOrder(wf) ==
    LET indeg0 == [id \in IdSet(wf) |-> in_degree(wf.nodes, id)]
        queue0 == SelectSeq(all_ids(wf), LAMBDA nid : indeg0[nid] = 0)
    IN  KahnLoop(wf, queue0, <<>>, indeg0)

\* mutant: the nodes in list order, dependencies ignored
TopologicalSortListOrder(wf) == [exc |-> "none", order |-> all_ids(wf)]

\* mutant: the length check is dropped, the nodes outside the cycle are run
TopologicalSortNoCycleCheck(wf) == [exc |-> "none", order |-> KahnOrder(wf)]

\* if len(order) != len(all_ids): raise ValueError("Cycle detected ...")
_topological_sort(wf) ==
    LET ord == KahnOrder(wf)
    IN  IF Len(ord) # Len(all_ids(wf))
        THEN [exc |-> "ValueError", order |-> <<>>]
        ELSE [exc |-> "none", order |-> ord]

-----------------------------------------------------------------------------
(* simulator/state.py and simulator/services.py *)

\* SimulatorState()
SimulatorState ==
    [employees |-> <<>>, google_accounts |-> <<>>, slack_channels |-> <<>>,
     slack_users |-> {}, github_members |-> <<>>, jira_issues |-> <<>>]

\* ExecutionTrace().steps
ExecutionTrace == <<>>

NoResult == <<>>
NoError == <<>>

TraceStep(node_id, service, action, parameters, result, status, error) ==
    [node_id |-> node_id, service |-> service, action |-> action,
     parameters |-> parameters, result |-> result, status |-> status,
     error |-> error]

\* ServiceError(message, error_type="precondition_failed")
ServiceError(message, error_type) ==
    [exc |-> "ServiceError", error_type |-> error_type, msg |-> Norm(message)]

\* any other exception an action raises
PyError(kind, message) == [exc |-> kind, error_type |-> "", msg |-> Norm(message)]

\* what an action did: it raised (st unchanged, nothing logged), or it returned
\* `result` after BaseService._log(node_id, action, params, result)
Raise(st, err) ==
    [exc |-> err.exc, error_type |-> err.error_type, msg |-> err.msg, st |-> st,
     logged |-> <<>>, result |-> NoResult]

Return(st, service_name, node_id, action, params, result) ==
    [exc |-> "none", error_type |-> "", msg |-> <<>>, st |-> st,
     logged |-> <<TraceStep(node_id, service_name, action, params, result,
                            "success", NoError)>>,
     result |-> result]

Dict1(k1, v1) == <<[k |-> k1, v |-> v1]>>
Dict2(k1, v1, k2, v2) == <<[k |-> k1, v |-> v1], [k |-> k2, v |-> v2]>>
Dict3(k1, v1, k2, v2, k3, v3) == Dict2(k1, v1, k2, v2) \o Dict1(k3, v3)
Dict4(k1, v1, k2, v2, k3, v3, k4, v4) == Dict2(k1, v1, k2, v2) \o Dict2(k3, v3, k4, v4)

\* e["name"] == employee_name for some e in state.employees.values()
HasEmployeeNamed(st, employee_name) ==
    \E i \in 1..Len(st.employees) : st.employees[i].v.name = employee_name

\* text.lower().replace(' ', '.') on the literal texts the model uses; template
\* tokens are lower-case and hold no blank
LowerDotText(x) ==
    CASE x = "Alice Chen" -> "alice.chen"
      [] x = "Bob Lee" -> "bob.lee"
      [] x = "Unknown" -> "unknown"
      [] x = "Engineer" -> "engineer"
      [] OTHER -> x

LowerDot(str) ==
    [i \in 1..Len(str) |-> IF str[i].tm THEN str[i] ELSE Lit(LowerDotText(str[i].x))]

\* HRService.create_employee; uid stands for uuid.uuid4().hex[:6].upper()
HR_create_employee(st, node_id, params, uid) ==
    LET employee_name == Get(params, "employee_name", StrV(S("Unknown")))
        role == Get(params, "role", StrV(S("Employee")))
        department == Get(params, "department", StrV(S("General")))
        employee_id == StrV(S("EMP-" \o uid))
        st2 == [st EXCEPT !.employees =
                   Put(@, employee_id,
                       [id |-> employee_id, name |-> employee_name, role |-> role,
                        department |-> department, status |-> "active"])]
        result == Dict3("employee_id", employee_id, "name", employee_name,
                        "status", StrV(S("created")))
    IN  Return(st2, "hr", node_id, "create_employee", params, result)

\* HRService.enroll_benefits
HR_enroll_benefits(st, node_id, params) ==
    LET employee_id == Get(params, "employee_id", NoneV)
        plan == Get(params, "plan", StrV(S("standard")))
        result == Dict3("employee_id", employee_id, "plan", plan,
                        "status", StrV(S("enrolled")))
    IN  IF Truthy(employee_id) /\ ~Has(st.employees, employee_id)
        THEN Raise(st, ServiceError(
                 S("Employee ") \o PyStr(employee_id)
                     \o S(" not found - create HR record first"),
                 "precondition_failed"))
        ELSE Return(st, "hr", node_id, "enroll_benefits", params, result)

\* mutant: the account is provisioned without looking for the HR record
ProvisionAccountUnchecked(st, node_id, params) ==
    LET employee_name == Get(params, "employee_name", StrV(S("Unknown")))
        email == Get(params, "email",
                     StrV(LowerDot(employee_name.t) \o S("@company.com")))
        st2 == [st EXCEPT !.google_accounts =
                   Put(@, email, [email |-> email, name |-> employee_name,
                                  status |-> "active"])]
    IN  Return(st2, "google", node_id, "provision_account", params,
               Dict2("email", email, "status", StrV(S("provisioned"))))

\* GoogleService.provision_account
Google_provision_account(st, node_id, params) ==
    LET employee_name == Get(params, "employee_name", StrV(S("Unknown")))
        \* the default of params.get("email", ...) is evaluated before the lookup
        dflt == StrV(LowerDot(employee_name.t) \o S("@company.com"))
        email == Get(params, "email", dflt)
        st2 == [st EXCEPT !.google_accounts =
                   Put(@, email, [email |-> email, name |-> employee_name,
                                  status |-> "active"])]
        result == Dict2("email", email, "status", StrV(S("provisioned")))
    IN  IF ~HasEmployeeNamed(st, employee_name)
        THEN Raise(st, ServiceError(
                 S("No HR record found for ") \o PyStr(employee_name)
                     \o S(" - create employee record first"),
                 "precondition_failed"))
        ELSE IF ~IsStr(employee_name)
        THEN Raise(st, PyError("AttributeError", S("object has no attribute 'lower'")))
        ELSE Return(st2, "google", node_id, "provision_account", params, result)

\* GoogleService.send_email
Google_send_email(st, node_id, params) ==
    Return(st, "google", node_id, "send_email", params,
           Dict3("to", Get(params, "to", StrV(<<>>)),
                 "subject", Get(params, "subject", StrV(<<>>)),
                 "status", StrV(S("sent"))))

\* GoogleService.create_calendar_event
Google_create_calendar_event(st, node_id, params) ==
    Return(st, "google", node_id, "create_calendar_event", params,
           Dict3("title", Get(params, "title", StrV(S("Meeting"))),
                 "attendees", Get(params, "attendees", EmptyListV),
                 "status", StrV(S("created"))))

\* SlackService.create_channel
Slack_create_channel(st, node_id, params) ==
    LET channel_name == Get(params, "channel_name", StrV(S("#general")))
        st2 == [st EXCEPT !.slack_channels = Put(@, channel_name, <<>>)]
    IN  Return(st2, "slack", node_id, "create_channel", params,
               Dict2("channel", channel_name, "status", StrV(S("created"))))

\* mutant: the user is added to slack_users and to the channel before the
\* account is looked up
Slack_invite_user_checked_late(st, node_id, params) ==
    LET email == Get(params, "email", StrV(<<>>))
        channel_name == Get(params, "channel_name", StrV(S("#general")))
        st2 == [st EXCEPT
                   !.slack_users = @ \cup {email},
                   !.slack_channels =
                       IF Has(@, channel_name)
                       THEN Put(@, channel_name, Append(Lookup(@, channel_name), email))
                       ELSE @]
    IN  IF Truthy(email) /\ ~Has(st.google_accounts, email)
        THEN Raise(st2, ServiceError(
                 S("No Google account found for ") \o PyStr(email)
                     \o S(" - provision account first"),
                 "precondition_failed"))
        ELSE Return(st2, "slack", node_id, "invite_user", params,
                    Dict3("email", email, "channel", channel_name,
                          "status", StrV(S("invited"))))

\* SlackService.invite_user
Slack_invite_user(st, node_id, params) ==
    LET email == Get(params, "email", StrV(<<>>))
        channel_name == Get(params, "channel_name", StrV(S("#general")))
        st2 == [st EXCEPT
                   !.slack_users = @ \cup {email},
                   !.slack_channels =
                       IF Has(@, channel_name)
                       THEN Put(@, channel_name, Append(Lookup(@, channel_name), email))
                       ELSE @]
    IN  IF Truthy(email) /\ ~Has(st.google_accounts, email)
        THEN Raise(st, ServiceError(
                 S("No Google account found for ") \o PyStr(email)
                     \o S(" - provision account first"),
                 "precondition_failed"))
        ELSE Return(st2, "slack", node_id, "invite_user", params,
                    Dict3("email", email, "channel", channel_name,
                          "status", StrV(S("invited"))))

\* SlackService.send_message
Slack_send_message(st, node_id, params) ==
    Return(st, "slack", node_id, "send_message", params,
           Dict3("channel", Get(params, "channel_name", StrV(S("#general"))),
                 "message", Get(params, "message", StrV(<<>>)),
                 "status", StrV(S("sent"))))

\* JiraService.create_issue; uid stands for uuid.uuid4().hex[:4].upper()
Jira_create_issue(st, node_id, params, uid) ==
    LET issue_key == StrV(S("ONBOARD-" \o uid))
        summary == Get(params, "summary", StrV(<<>>))
        issue_type == Get(params, "issue_type", StrV(S("Task")))
        st2 == [st EXCEPT !.jira_issues =
                   Put(@, issue_key,
                       [key |-> issue_key, summary |-> summary, type |-> issue_type,
                        status |-> "To Do", assignee |-> Get(params, "assignee", NoneV)])]
    IN  Return(st2, "jira", node_id, "create_issue", params,
               Dict3("issue_key", issue_key, "summary", summary,
                     "status", StrV(S("created"))))

\* JiraService.create_epic
Jira_create_epic(st, node_id, params, uid) ==
    Jira_create_issue(st, node_id, ("issue_type" :> StrV(S("Epic"))) @@ params, uid)

\* JiraService.assign_issue
Jira_assign_issue(st, node_id, params) ==
    LET issue_key == Get(params, "issue_key", StrV(<<>>))
        assignee == Get(params, "assignee", StrV(<<>>))
        st2 == IF Truthy(issue_key) /\ Has(st.jira_issues, issue_key)
               THEN [st EXCEPT !.jira_issues =
                        Put(@, issue_key,
                            [Lookup(@, issue_key) EXCEPT !.assignee = assignee])]
               ELSE st
    IN  Return(st2, "jira", node_id, "assign_issue", params,
               Dict3("issue_key", issue_key, "assignee", assignee,
                     "status", StrV(S("assigned"))))

\* GitHubService.add_to_org
GitHub_add_to_org(st, node_id, params) ==
    LET username == Get(params, "username", StrV(<<>>))
        employee_name == Get(params, "employee_name", StrV(<<>>))
        org == Get(params, "org", StrV(S("techcorp")))
        st2 == [st EXCEPT !.github_members =
                   Put(@, username, [username |-> username, org |-> org,
                                     role |-> "member"])]
    IN  IF Truthy(employee_name) /\ ~HasEmployeeNamed(st, employee_name)
        THEN Raise(st, ServiceError(
                 S("No HR record found for ") \o PyStr(employee_name)
                     \o S(" - create employee record first"),
                 "precondition_failed"))
        ELSE Return(st2, "github", node_id, "add_to_org", params,
                    Dict3("username", username, "org", org, "status", StrV(S("added"))))

\* GitHubService.grant_repo_access
GitHub_grant_repo_access(st, node_id, params) ==
    LET username == Get(params, "username", StrV(<<>>))
        repo == Get(params, "repo", StrV(<<>>))
        permission == Get(params, "permission", StrV(S("read")))
    IN  IF Truthy(username) /\ ~Has(st.github_members, username)
        THEN Raise(st, ServiceError(
                 PyStr(username) \o S(" is not in the org - add to org first"),
                 "precondition_failed"))
        ELSE Return(st, "github", node_id, "grant_repo_access", params,
                    Dict4("username", username, "repo", repo,
                          "permission", permission, "status", StrV(S("granted"))))

\* the action methods of each simulator service class
SimActions ==
    [hr |-> {"create_employee", "enroll_benefits"},
     google |-> {"provision_account", "send_email", "create_calendar_event"},
     slack |-> {"create_channel", "invite_user", "send_message"},
     jira |-> {"create_issue", "create_epic", "assign_issue"},
     github |-> {"add_to_org", "grant_repo_access"}]

\* attributes of a service object that are not methods (BaseService.__init__)
SimFields == {"state", "trace", "service_name"}

\* attributes of a connector object that are not methods (BaseConnector.__init__)
ConnFields == {"trace", "http", "service_name"}

\* the bound method service.action called as action_fn(node_id, **params)
SimCall(service, action, st, node_id, params, uid) ==
    CASE service = "hr" /\ action = "create_employee" ->
            HR_create_employee(st, node_id, params, uid)
      [] service = "hr" /\ action = "enroll_benefits" ->
            HR_enroll_benefits(st, node_id, params)
      [] service = "google" /\ action = "provision_account" ->
            Google_provision_account(st, node_id, params)
      [] service = "google" /\ action = "send_email" ->
            Google_send_email(st, node_id, params)
      [] service = "google" /\ action = "create_calendar_event" ->
            Google_create_calendar_event(st, node_id, params)
      [] service = "slack" /\ action = "create_channel" ->
            Slack_create_channel(st, node_id, params)
      [] service = "slack" /\ action = "invite_user" ->
            Slack_invite_user(st, node_id, params)
      [] service = "slack" /\ action = "send_message" ->
            Slack_send_message(st, node_id, params)
      [] service = "jira" /\ action = "create_issue" ->
            Jira_create_issue(st, node_id, params, uid)
      [] service = "jira" /\ action = "create_epic" ->
            Jira_create_epic(st, node_id, params, uid)
      [] service = "jira" /\ action = "assign_issue" ->
            Jira_assign_issue(st, node_id, params)
      [] service = "github" /\ action = "add_to_org" ->
            GitHub_add_to_org(st, node_id, params)
      [] service = "github" /\ action = "grant_repo_access" ->
            GitHub_grant_repo_access(st, node_id, params)
      [] OTHER ->
            \* a non-callable attribute: "'...' object is not callable"
            Raise(st, PyError("TypeError", S("object is not callable")))

-----------------------------------------------------------------------------
(* simulator/failures.py *)

\* FailureRule(error_type, message, probability); probability in percent
FailureRule(error_type, message, probability) ==
    [error_type |-> error_type, message |-> message, probability |-> probability]

\* failure_config=None
NoFailureConfig == [some |-> FALSE, rules |-> <<>>]

\* FailureConfig(rules={...}); rules is a function from "service.action" to a rule
FailureConfig(rules) == [some |-> TRUE, rules |-> rules]

\* the values random.random() takes, in percent: it draws from [0.0, 1.0)
Variates == {0, 50, 99}

\* mutant: the comparison with the probability is inverted
should_fail_inverted(fc, service, action, u) ==
    LET key == service \o "." \o action
    IN  IF key \in DOMAIN fc.rules /\ u > fc.rules[key].probability
        THEN [hit |-> TRUE, rule |-> fc.rules[key]]
        ELSE [hit |-> FALSE, rule |-> FailureRule("", "", 0)]

\* FailureConfig.should_fail with variate u = random.random()
should_fail(fc, service, action, u) ==
    LET key == service \o "." \o action
    IN  IF key \notin DOMAIN fc.rules THEN [hit |-> FALSE, rule |-> FailureRule("", "", 0)]
        ELSE IF u <= fc.rules[key].probability
             THEN [hit |-> TRUE, rule |-> fc.rules[key]]
             ELSE [hit |-> FALSE, rule |-> FailureRule("", "", 0)]

-----------------------------------------------------------------------------
(* WorkflowExecutor.execute, one action per iteration of its loop *)

NoReport == [returned |-> FALSE, workflow_id |-> "", workflow_name |-> "",
             total_steps |-> 0, successful |-> 0, failed |-> 0,
             skipped |-> 0, trace |-> <<>>, dependency_violations |-> <<>>]

\* node_map = {node.id: node for node in workflow.nodes}  (the last node wins)
node_map(wf, node_id) ==
    wf.nodes[CHOOSE i \in 1..Len(wf.nodes) :
                /\ wf.nodes[i].id = node_id
                /\ \A j \in (i + 1)..Len(wf.nodes) : wf.nodes[j].id # node_id]

\* ', '.join(ids)
RECURSIVE Join(_)
Join(ids) ==
    IF ids = <<>> THEN ""
    ELSE IF Len(ids) = 1 THEN ids[1]
    ELSE ids[1] \o ", " \o Join(Tail(ids))

\* uuid.uuid4() of the next created record: values that differ from one
\* another and, with the entropy, from one execution to the next
FreshUid(st) == ToString(entropy + Len(st.employees) + Len(st.jira_issues) + 1)

\* is `action` an action method of the object registered under `service`
\* (simulator service and real connector define the same pairs)
IsAction(service, action) ==
    service \in DOMAIN SimActions /\ action \in SimActions[service]

\* the action methods of a connector the builder persisted: validate_connector_file
\* accepts the file only if every required action is a method of the class
CustomActions(service) == IF service = "zendesk" THEN {"create_ticket"} ELSE {}

\* getattr(service, node.action, None) is not None, for a simulator service
\* ("sim"), a built-in connector ("conn"), a generated connector ("custom") and
\* the httpx.AsyncClient stored under "_http_client" ("http"), which has none
\* of the action names used here
HasAttr(kind, service, action) ==
    \/ kind \in {"sim", "conn"} /\ IsAction(service, action)
    \/ kind = "sim" /\ action \in SimFields
    \/ kind = "conn" /\ action \in ConnFields
    \/ kind = "custom" /\ action \in CustomActions(service) \cup ConnFields

\* is getattr(service, action) a coroutine function (`async def`)
IsCoroutineFunction(kind, service, action) ==
    \/ kind = "conn" /\ IsAction(service, action)
    \/ kind = "custom" /\ action \in CustomActions(service)

\* WorkflowExecutor._execute_node: what the call returns or raises.
\* A connector action is a coroutine function: calling it without await
\* returns a coroutine object and runs nothing.
_execute_node(node, wf, svcs, st, outs) ==
    LET rp == _resolve_parameters(node, wf, outs)
    IN  IF node.service \notin DOMAIN svcs
        THEN [called |-> FALSE, coro |-> FALSE,
              r |-> Raise(st, ServiceError(S("Unknown service: " \o node.service),
                                           "unknown_service"))]
        ELSE IF ~HasAttr(svcs[node.service], node.service, node.action)
        THEN [called |-> FALSE, coro |-> FALSE,
              r |-> Raise(st, ServiceError(
                       S("Unknown action " \o node.action \o " for service "
                             \o node.service), "unknown_action"))]
        ELSE IF rp.exc # "none"
        THEN [called |-> FALSE, coro |-> FALSE,
              r |-> Raise(st, PyError(rp.exc, S("object has no attribute 'items'")))]
        ELSE IF "node_id" \in DOMAIN rp.params
        THEN [called |-> FALSE, coro |-> FALSE,
              r |-> Raise(st, PyError("TypeError",
                                      S("got multiple values for argument 'node_id'")))]
        ELSE IF IsCoroutineFunction(svcs[node.service], node.service, node.action)
        THEN [called |-> TRUE, coro |-> TRUE,
              r |-> [exc |-> "none", error_type |-> "", msg |-> <<>>, st |-> st,
                     logged |-> <<>>, result |-> NoResult]]
        ELSE [called |-> TRUE, coro |-> FALSE,
              r |-> SimCall(node.service, node.action, st, node.id, rp.params,
                            FreshUid(st))]

ExecStart ==
    /\ pc = "start"
    /\ LET ts == _topological_sort(workflow)
       IN  IF ts.exc # "none"
           THEN /\ pc' = "raised"
                /\ raised' = ts.exc
                /\ UNCHANGED <<order, pos>>
           ELSE /\ pc' = "loop"
                /\ order' = ts.order
                /\ pos' = 1
                /\ UNCHANGED raised
    /\ UNCHANGED <<workflow, services, failure_config, state, trace, node_outputs,
                   failed_nodes, skipped_nodes, successful, failed, skipped,
                   dependency_violations, report, calls, failures>>
    /\ UNCHANGED plan_vars
    /\ UNCHANGED side_vars

\* mutant: a skipped node is recorded but not counted
ExecSkipUncounted(node, upstream_failures) ==
    /\ skipped_nodes' = skipped_nodes \cup {node.id}
    /\ skipped' = skipped
    /\ trace' = Append(trace,
          TraceStep(node.id, node.service, node.action, <<>>, NoResult, "skipped",
                    S("Skipped due to upstream failure: " \o Join(upstream_failures))))
    /\ pos' = pos + 1
    /\ UNCHANGED <<pc, raised, state, node_outputs, failed_nodes, successful, failed,
                   dependency_violations, calls, failures>>

\* the branch `if upstream_failures:`
ExecSkip(node, upstream_failures) ==
    /\ skipped_nodes' = skipped_nodes \cup {node.id}
    /\ skipped' = skipped + 1
    /\ trace' = Append(trace,
          TraceStep(node.id, node.service, node.action, <<>>, NoResult, "skipped",
                    S("Skipped due to upstream failure: " \o Join(upstream_failures))))
    /\ pos' = pos + 1
    /\ UNCHANGED <<pc, raised, state, node_outputs, failed_nodes, successful, failed,
                   dependency_violations, calls, failures>>

\* the branch `if rule:` of the injected failures
ExecInjected(node, rule) ==
    LET rp == _resolve_parameters(node, workflow, node_outputs)
    IN  /\ failed_nodes' = failed_nodes \cup {node.id}
        /\ failed' = failed + 1
        /\ IF rp.exc # "none"
           THEN /\ pc' = "raised"
                /\ raised' = rp.exc
                /\ UNCHANGED <<trace, pos>>
           ELSE /\ trace' = Append(trace,
                      TraceStep(node.id, node.service, node.action, rp.params, NoResult,
                                "failed",
                                S("[" \o rule.error_type \o "] " \o rule.message)))
                /\ pos' = pos + 1
                /\ UNCHANGED <<pc, raised>>
        /\ failures' = Append(failures, [node_id |-> node.id, exc |-> "injected",
                                          error_type |-> rule.error_type])
        /\ UNCHANGED <<state, node_outputs, skipped_nodes, successful, skipped,
                       dependency_violations, calls>>

\* mutant: a node whose dispatch raised stays next in line and is dispatched
\* again
ExecDispatchRetried(node) ==
    LET e == _execute_node(node, workflow, services, state, node_outputs)
        rp == _resolve_parameters(node, workflow, node_outputs)
        called == IF e.called
                  THEN Append(calls, [node_id |-> node.id, service |-> node.service,
                                      action |-> node.action, params |-> rp.params,
                                      outs |-> node_outputs, coro |-> e.coro])
                  ELSE calls
    IN  /\ calls' = called
        /\ state' = e.r.st
        /\ IF e.r.exc = "none"
           THEN /\ node_outputs' = Put(node_outputs, node.id,
                                       [coro |-> e.coro, out |-> e.r.result])
                /\ successful' = successful + 1
                /\ trace' = trace \o e.r.logged
                /\ pos' = pos + 1
                /\ UNCHANGED <<pc, raised, failed_nodes, failed, dependency_violations,
                               failures>>
           ELSE /\ failed_nodes' = failed_nodes \cup {node.id}
                /\ failed' = failed + 1
                /\ failures' = Append(failures, [node_id |-> node.id, exc |-> e.r.exc,
                                                  error_type |-> e.r.error_type])
                /\ dependency_violations' =
                      IF e.r.exc = "ServiceError"
                      THEN Append(dependency_violations,
                                  Norm(S(node.id \o ": ") \o e.r.msg))
                      ELSE dependency_violations
                /\ IF rp.exc # "none"
                   THEN /\ pc' = "raised"
                        /\ raised' = rp.exc
                        /\ UNCHANGED <<trace, pos>>
                   ELSE /\ trace' = Append(trace,
                              TraceStep(node.id, node.service, node.action, rp.params,
                                        NoResult, "failed", e.r.msg))
                        /\ pos' = pos
                        /\ UNCHANGED <<pc, raised>>
                /\ UNCHANGED <<node_outputs, successful>>
        /\ UNCHANGED <<skipped_nodes, skipped>>

\* the try/except around self._execute_node(node, workflow)
ExecDispatch(node) ==
    LET e == _execute_node(node, workflow, services, state, node_outputs)
        rp == _resolve_parameters(node, workflow, node_outputs)
        called == IF e.called
                  THEN Append(calls, [node_id |-> node.id, service |-> node.service,
                                      action |-> node.action, params |-> rp.params,
                                      outs |-> node_outputs, coro |-> e.coro])
                  ELSE calls
    IN  /\ calls' = called
        /\ state' = e.r.st
        /\ IF e.r.exc = "none"
           THEN /\ node_outputs' = Put(node_outputs, node.id,
                                       [coro |-> e.coro, out |-> e.r.result])
                /\ successful' = successful + 1
                /\ trace' = trace \o e.r.logged
                /\ pos' = pos + 1
                /\ UNCHANGED <<pc, raised, failed_nodes, failed, dependency_violations,
                               failures>>
           ELSE /\ failed_nodes' = failed_nodes \cup {node.id}
                /\ failed' = failed + 1
                /\ failures' = Append(failures, [node_id |-> node.id, exc |-> e.r.exc,
                                                  error_type |-> e.r.error_type])
                /\ dependency_violations' =
                      IF e.r.exc = "ServiceError"
                      THEN Append(dependency_violations,
                                  Norm(S(node.id \o ": ") \o e.r.msg))
                      ELSE dependency_violations
                /\ IF rp.exc # "none"
                   THEN /\ pc' = "raised"
                        /\ raised' = rp.exc
                        /\ UNCHANGED <<trace, pos>>
                   ELSE /\ trace' = Append(trace,
                              TraceStep(node.id, node.service, node.action, rp.params,
                                        NoResult, "failed", e.r.msg))
                        /\ pos' = pos + 1
                        /\ UNCHANGED <<pc, raised>>
                /\ UNCHANGED <<node_outputs, successful>>
        /\ UNCHANGED <<skipped_nodes, skipped>>

\* mutant: a skipped dependency does not count as an upstream failure
UpstreamFailuresFailedOnly(node, failed_set, skipped_set) ==
    SelectSeq(node.depends_on, LAMBDA dep : dep \in failed_set)

\* [dep for dep in node.depends_on if dep in failed_nodes or dep in skipped_nodes]
UpstreamFailures(node, failed_set, skipped_set) ==
    SelectSeq(node.depends_on, LAMBDA dep : dep \in failed_set \/ dep \in skipped_set)

\* one iteration of `for node_id in order:`
ExecNode ==
    /\ pc = "loop"
    /\ pos <= Len(order)
    /\ LET node == node_map(workflow, order[pos])
           upstream_failures == UpstreamFailures(node, failed_nodes, skipped_nodes)
       IN  IF upstream_failures # <<>>
           THEN ExecSkip(node, upstream_failures)
           ELSE \E u \in Variates :
                  LET sf == should_fail(failure_config, node.service, node.action, u)
                  IN  IF failure_config.some /\ sf.hit
                      THEN ExecInjected(node, sf.rule)
                      ELSE ExecDispatch(node)
    /\ UNCHANGED <<workflow, services, failure_config, order, report>>
    /\ UNCHANGED plan_vars
    /\ UNCHANGED side_vars

\* after the loop: trace.completed_at = now; return ExecutionReport(...)
ExecFinish ==
    /\ pc = "loop"
    /\ pos > Len(order)
    /\ pc' = "done"
    /\ report' = [returned |-> TRUE, workflow_id |-> workflow.id,
                  workflow_name |-> workflow.name,
                  total_steps |-> Len(workflow.nodes),
                  successful |-> successful, failed |-> failed, skipped |-> skipped,
                  trace |-> trace, dependency_violations |-> dependency_violations]
    /\ UNCHANGED <<workflow, services, failure_config, state, trace, node_outputs,
                   order, pos, failed_nodes, skipped_nodes, successful, failed,
                   skipped, dependency_violations, raised, calls, failures>>
    /\ UNCHANGED plan_vars
    /\ UNCHANGED side_vars

\* WorkflowExecutor.__init__ and the locals of execute before its first statement
ExecutorInit(wf, svcs, fc) ==
    /\ workflow = wf
    /\ services = svcs
    /\ failure_config = fc
    /\ state = SimulatorState
    /\ trace = ExecutionTrace
    /\ node_outputs = <<>>
    /\ pc = "start"
    /\ order = <<>>
    /\ pos = 0
    /\ failed_nodes = {}
    /\ skipped_nodes = {}
    /\ successful = 0
    /\ failed = 0
    /\ skipped = 0
    /\ dependency_violations = <<>>
    /\ report = NoReport
    /\ raised = "none"
    /\ calls = <<>>
    /\ failures = <<>>

-----------------------------------------------------------------------------
(* The workflows, service maps and failure configurations executed *)

\* node identifiers, in the order of workflow.nodes
NodeSeq == <<"a", "b", "c">>
NodeIds == {NodeSeq[i] : i \in 1..Len(NodeSeq)}

\* the most depends_on entries a workflow holds
MaxEdges == 3

Param(name, value) == [name |-> name, value |-> value]

\* the (service, action, parameters) of the nodes
NodeKind(kind) ==
    CASE kind = "hr" ->
            [service |-> "hr", action |-> "create_employee",
             parameters |-> <<Param("employee_name", StrV(T("employee_name"))),
                              Param("role", StrV(T("role"))),
                              Param("department", NumV(7))>>]
      [] kind = "google" ->
            [service |-> "google", action |-> "provision_account",
             parameters |-> <<Param("employee_name", StrV(T("employee_name")))>>]
      [] kind = "slack" ->
            [service |-> "slack", action |-> "invite_user",
             parameters |-> <<Param("email", StrV(T("b.email"))),
                              Param("channel_name", StrV(S("#general")))>>]
      [] kind = "zendesk" ->
            [service |-> "zendesk", action |-> "create_ticket",
             parameters |-> <<Param("subject",
                                    StrV(S("Welcome ") \o T("employee_name")))>>]
      [] kind = "client" ->
            [service |-> "_http_client", action |-> "notify", parameters |-> <<>>]
      [] OTHER ->
            [service |-> "hr", action |-> "offboard", parameters |-> <<>>]

KindNames == {"hr", "google", "slack", "zendesk", "offboard"}

EdgePairs == {e \in NodeIds \X NodeIds : e[1] # e[2]}
EdgeSets == {E \in SUBSET EdgePairs : Cardinality(E) <= MaxEdges}

\* a WorkflowNode: E holds the pairs <<dep, node>>
WorkflowNode(id, kind, E) ==
    [id |-> id, service |-> NodeKind(kind).service, action |-> NodeKind(kind).action,
     parameters |-> NodeKind(kind).parameters,
     depends_on |-> SelectSeq(NodeSeq, LAMBDA dep : <<dep, id>> \in E)]

Workflow(E, kinds, globals) ==
    [id |-> "onboarding", name |-> "Onboarding", team |-> "default", version |-> 1,
     nodes |-> [i \in 1..Len(NodeSeq) |-> WorkflowNode(NodeSeq[i], kinds[NodeSeq[i]], E)],
     parameters |-> globals]

GlobalsChoices ==
    {<<>>,
     Dict2("employee_name", StrV(S("Alice Chen")), "seats", NumV(3))}

Workflows ==
    {Workflow(E, kinds, g) : E \in EdgeSets, kinds \in [NodeIds -> KindNames],
                             g \in GlobalsChoices}

\* create_simulator(): the five simulator services
SimServices == [svc \in DOMAIN SimActions |-> "sim"]

FailureConfigs ==
    {NoFailureConfig,
     FailureConfig("google.provision_account" :>
                       FailureRule("rate_limit", "Too many requests", 100)),
     FailureConfig("hr.create_employee" :>
                       FailureRule("already_exists", "Duplicate record", 50))}

-----------------------------------------------------------------------------
(* The service layer: connectors/__init__.py, connectors/registry.py,       *)
(* connectors/builder/agent.py                                              *)

\* the classes the @register decorator put into _BUILTIN_REGISTRY
_BUILTIN_REGISTRY == {"github", "google", "hr", "jira", "slack"}

\* Settings: connector_mode and the services whose credentials are all set
\* (what XConnector.is_configured(settings) answers)
Settings(connector_mode, configured) ==
    [connector_mode |-> connector_mode, configured |-> configured]

\* ConnectorRegistry.list_available
list_available(custom) == _BUILTIN_REGISTRY \cup custom

\* _load_custom_connector: does it return a class.  It returns None when
\* exec_module raises or the module holds no class of the expected name;
\* custom_connectors/crm.py is such a file (its import raises)
_load_custom_connector(service_name) == service_name # "crm"

\* ConnectorRegistry.get: the kind of connector it returns, "none" for None
RegistryGet(service_name, custom) ==
    IF service_name \in _BUILTIN_REGISTRY THEN "conn"
    ELSE IF service_name \in custom /\ _load_custom_connector(service_name)
    THEN "custom"
    ELSE "none"

\* mutant: a connector is preferred whether or not it is configured
ServiceLayerConnectorFirst(stg, custom) ==
    IF stg.connector_mode = "simulator"
    THEN SimServices
    ELSE LET service_names == DOMAIN SimServices \cup list_available(custom)
             exposed == {name \in service_names :
                            RegistryGet(name, custom) # "none"
                               \/ name \in DOMAIN SimServices}
         IN  [name \in exposed \cup {"_http_client"} |->
                 IF name = "_http_client" THEN "http"
                 ELSE IF RegistryGet(name, custom) # "none"
                 THEN RegistryGet(name, custom)
                 ELSE "sim"]

\* http_client = httpx.AsyncClient(timeout=30.0): the clients one call of
\* create_service_layer makes
AsyncClients(stg) ==
    IF stg.connector_mode = "simulator" THEN <<>> ELSE <<"open">>

\* create_service_layer(settings): the services map it returns
create_service_layer(stg, custom) ==
    IF stg.connector_mode = "simulator"
    THEN SimServices
    ELSE LET service_names == DOMAIN SimServices \cup list_available(custom)
             Preferred(name) ==
                 /\ RegistryGet(name, custom) # "none"
                 /\ name \in stg.configured \/ name \notin DOMAIN SimServices
             exposed == {name \in service_names :
                            Preferred(name) \/ name \in DOMAIN SimServices}
         IN  [name \in exposed \cup {"_http_client"} |->
                 IF name = "_http_client" THEN "http"
                 ELSE IF Preferred(name) THEN RegistryGet(name, custom)
                 ELSE "sim"]

\* _collect_missing_services: a dict service_name -> set of actions
RECURSIVE CollectMissing(_, _, _)
CollectMissing(nodes, svcs, missing) ==
    IF nodes = <<>> THEN missing
    ELSE LET node == Head(nodes)
             seen == IF Has(missing, node.service)
                     THEN Lookup(missing, node.service) ELSE {}
         IN  IF node.service \in DOMAIN svcs
             THEN CollectMissing(Tail(nodes), svcs, missing)
             ELSE CollectMissing(Tail(nodes), svcs,
                                 Put(missing, node.service, seen \cup {node.action}))

_collect_missing_services(wf, svcs) == CollectMissing(wf.nodes, svcs, <<>>)

\* an event yielded to the consumer: {"type": ..., "content": ...}
Event(type, about, attempt, rep) ==
    [type |-> type, about |-> about, attempt |-> attempt, report |-> rep]

Ev(type, about) == Event(type, about, 0, NoReport)

\* the messages one agent session streams
AgentMessages == <<Ev("result", "agent session")>>

\* is_safe_service_name: letters, digits and underscores only
is_safe_service_name(service_name) ==
    service_name \in {"hr", "google", "slack", "jira", "github", "zendesk"}

\* what a call of run_agent by the builder can do.  run_agent as defined in
\* agents/base.py takes no `team` keyword: the call raises TypeError.  A
\* replaced run_agent may raise, leave no connector.py, leave one that fails
\* validation, or leave a valid one.
BuildOutcomes(impl) ==
    IF impl = "base" THEN {"type_error"}
    ELSE {"exception", "no_file", "invalid", "built"}

\* build_connector: the events it yields and whether the file was persisted
build_connector(service_name, outcome) ==
    LET start == <<Ev("text", "building connector for " \o service_name)>>
    IN  IF ~is_safe_service_name(service_name)
        THEN [events |-> <<Ev("error", "invalid service name " \o service_name)>>,
              built |-> FALSE]
        ELSE CASE outcome \in {"type_error", "exception"} ->
                    [events |-> start \o
                        <<Ev("error", "Connector builder failed for " \o service_name)>>,
                     built |-> FALSE]
               [] outcome = "no_file" ->
                    [events |-> start \o AgentMessages \o
                        <<Ev("error", "no connector.py for " \o service_name)>>,
                     built |-> FALSE]
               [] outcome = "invalid" ->
                    [events |-> start \o AgentMessages \o
                        <<Ev("error", "Connector validation failed for "
                                          \o service_name)>>,
                     built |-> FALSE]
               [] OTHER ->
                    [events |-> start \o AgentMessages \o
                        <<Ev("connector_built", service_name),
                          Ev("text", "Connector built for " \o service_name)>>,
                     built |-> TRUE]

\* for service_name, actions in missing.items(): build_connector(...)
RECURSIVE BuildAll(_, _, _)
BuildAll(missing, outcomes, acc) ==
    IF missing = <<>> THEN acc
    ELSE LET b == build_connector(Head(missing).k, Head(outcomes))
         IN  BuildAll(Tail(missing), Tail(outcomes),
                      [events |-> acc.events \o b.events,
                       custom |-> IF b.built THEN acc.custom \cup {Head(missing).k}
                                  ELSE acc.custom])

-----------------------------------------------------------------------------
(* workflow/report.py, workflow/store.py *)

\* the status_icon of a trace row
StatusIcon(status) ==
    CASE status = "success" -> "OK"
      [] status = "failed" -> "FAIL"
      [] status = "skipped" -> "SKIP"
      [] OTHER -> status

\* ", ".join(f"{k}={v}" for k, v in step.result.items() if k != "status")
RECURSIVE JoinItems(_)
JoinItems(items) ==
    IF items = <<>> THEN <<>>
    ELSE LET item == S(Head(items).k \o "=") \o PyStr(Head(items).v)
         IN  IF Len(items) = 1 THEN Norm(item)
             ELSE Norm(item \o S(", ") \o JoinItems(Tail(items)))

\* the Detail column of a trace row
Detail(step) ==
    IF step.status = "success" /\ step.result # <<>>
    THEN JoinItems(SelectSeq(step.result, LAMBDA item : item.k # "status"))
    ELSE step.error

\* ExecutionReport.to_markdown: the header lines, the violation bullets and
\* the rows of the trace table (the duration line is left out)
to_markdown(rep) ==
    [title |-> "# Execution Report: " \o rep.workflow_name,
     workflow_id |-> rep.workflow_id,
     total_steps |-> rep.total_steps, successful |-> rep.successful,
     failed |-> rep.failed, skipped |-> rep.skipped,
     violations |-> rep.dependency_violations,
     rows |-> [i \in 1..Len(rep.trace) |->
                 [n |-> i, node |-> rep.trace[i].node_id,
                  service |-> rep.trace[i].service, action |-> rep.trace[i].action,
                  status |-> StatusIcon(rep.trace[i].status),
                  detail |-> Detail(rep.trace[i])]]]

\* base_dir / workflow.team / f"{workflow.id}-v{workflow.version}.json"
StorePathOf(wf) == wf.team \o "/" \o wf.id \o "-v" \o ToString(wf.version) \o ".json"

\* WorkflowStore.save: writes base_dir/team/{id}-v{version}.json
WorkflowStoreSave(files, wf) == Put(files, StorePathOf(wf), wf)

-----------------------------------------------------------------------------
(* The planner loop: generate_workflow of workflow/pipeline.py and the      *)
(* older generate_workflow of agents/workflow_agent.py                      *)

\* MAX_FIX_ATTEMPTS = 2
MAX_FIX_ATTEMPTS == 2

NoWorkflow ==
    [id |-> "", name |-> "", team |-> "", version |-> 0, nodes |-> <<>>,
     parameters |-> <<>>]

\* an optional Workflow: None, or the parsed workflow
NoneWorkflow == [some |-> FALSE, wf |-> NoWorkflow]
SomeWorkflow(wf) == [some |-> TRUE, wf |-> wf]

\* workflow.json: not there, there but json.loads / model_validate raises,
\* or the JSON of a Workflow
Absent == [kind |-> "absent", wf |-> NoWorkflow]
Invalid == [kind |-> "invalid", wf |-> NoWorkflow]
Json(wf) == [kind |-> "json", wf |-> wf]

\* the workflows the agent writes
OnboardingKinds == ("a" :> "hr") @@ ("b" :> "google") @@ ("c" :> "slack")
TicketKinds == ("a" :> "hr") @@ ("b" :> "google") @@ ("c" :> "zendesk")
OnboardingGlobals == Dict2("employee_name", StrV(S("Alice Chen")), "seats", NumV(3))

AgentWorkflows ==
    {Workflow({<<"a", "b">>, <<"b", "c">>}, OnboardingKinds, OnboardingGlobals),
     Workflow({<<"a", "b">>}, OnboardingKinds, OnboardingGlobals),
     Workflow({<<"a", "b">>}, TicketKinds, OnboardingGlobals),
     Workflow({<<"a", "b">>, <<"b", "a">>}, OnboardingKinds, OnboardingGlobals)}

FileContents == {Absent, Invalid} \cup {Json(wf) : wf \in AgentWorkflows}

\* what a call of run_agent can do: the run_agent of agents/base.py catches
\* every exception of the session and yields it as a message; a replaced
\* run_agent may raise
AgentOutcomes(impl) == IF impl = "base" THEN {"ok"} ELSE {"ok", "exception"}

\* an entry of the history
LogEntry(op, purpose, attempt, failed_count, markdown) ==
    [op |-> op, purpose |-> purpose, attempt |-> attempt, failed |-> failed_count,
     markdown |-> markdown]

NoMarkdown == to_markdown(NoReport)

AgentRun(purpose, attempt, markdown) == LogEntry("agent", purpose, attempt, 0, markdown)
ParseEntry(result, attempt) == LogEntry("parse", result, attempt, 0, NoMarkdown)
ExecuteEntry(attempt) == LogEntry("execute", "", attempt, 0, NoMarkdown)
ReportEntry(attempt, rep) == LogEntry("report", "", attempt, rep.failed, to_markdown(rep))

\* executor = WorkflowExecutor(state, trace, services, failure_config), then
\* the call executor.execute(workflow)
ExecutorCreate(wf, svcs, fc) ==
    /\ workflow' = wf
    /\ services' = svcs
    /\ failure_config' = fc
    /\ state' = SimulatorState
    /\ trace' = ExecutionTrace
    /\ node_outputs' = <<>>
    /\ pc' = "start"
    /\ order' = <<>>
    /\ pos' = 0
    /\ failed_nodes' = {}
    /\ skipped_nodes' = {}
    /\ successful' = 0
    /\ failed' = 0
    /\ skipped' = 0
    /\ dependency_violations' = <<>>
    /\ report' = NoReport
    /\ raised' = "none"
    /\ calls' = <<>>
    /\ failures' = <<>>

\* no executor has been created yet
ExecutorIdle ==
    /\ workflow = NoWorkflow
    /\ services = SimServices
    /\ failure_config = NoFailureConfig
    /\ state = SimulatorState
    /\ trace = ExecutionTrace
    /\ node_outputs = <<>>
    /\ pc = "idle"
    /\ order = <<>>
    /\ pos = 0
    /\ failed_nodes = {}
    /\ skipped_nodes = {}
    /\ successful = 0
    /\ failed = 0
    /\ skipped = 0
    /\ dependency_violations = <<>>
    /\ report = NoReport
    /\ raised = "none"
    /\ calls = <<>>
    /\ failures = <<>>

\* mutant: one more attempt is allowed
LastAttemptOffByOne(idx) == idx > MAX_FIX_ATTEMPTS

\* `if attempt_idx >= MAX_FIX_ATTEMPTS: break`
LastAttempt(idx) == idx >= MAX_FIX_ATTEMPTS

\* mutant: a report without failures does not end the loop
CleanNever(rep) == FALSE

\* `if report.failed == 0: break`
Clean(rep) == rep.failed = 0

\* mutant: the check for the file is skipped
ExistsAlways(content) == TRUE

\* workflow_file.exists()
Exists(content) == content.kind # "absent"

\* the draft: run_agent, then `if not workflow_file.exists()`
PipelineDraft ==
    /\ variant = "pipeline"
    /\ ppc = "draft"
    /\ IF run_agent["pipeline"] = "base"
       THEN \* run_agent(..., team=team, ...) raises TypeError: caught
            /\ events' = events \o <<Ev("error", "Agent failed during workflow generation"),
                                     Ev("workspace", "")>>
            /\ ppc' = "returned"
            /\ UNCHANGED <<log, workflow_file>>
       ELSE \E outcome \in AgentOutcomes(run_agent["pipeline"]), content \in FileContents :
              /\ log' = Append(log, AgentRun("draft", 0, NoMarkdown))
              /\ IF outcome = "exception"
                 THEN /\ events' = events \o
                            <<Ev("error", "Agent failed during workflow generation"),
                              Ev("workspace", "")>>
                      /\ ppc' = "returned"
                      /\ UNCHANGED workflow_file
                 ELSE /\ workflow_file' = content
                      /\ IF ~Exists(content)
                         THEN /\ events' = events \o AgentMessages \o
                                    <<Ev("error", "Agent did not produce workflow.json"),
                                      Ev("workspace", "")>>
                              /\ ppc' = "returned"
                         ELSE /\ events' = events \o AgentMessages
                              /\ ppc' = "parse"
    /\ UNCHANGED <<variant, run_agent, settings, workflow_store, custom_connectors,
                   workspace, attempt_idx, final_report, final_workflow,
                   completed_normally>>
    /\ UNCHANGED exec_vars
    /\ UNCHANGED side_vars

\* one pass of the loop up to the call of execute: parse workflow.json; on an
\* error ask the agent to fix the file; else build the missing connectors and
\* create the executor
PipelineParse ==
    /\ variant = "pipeline"
    /\ ppc = "parse"
    /\ IF workflow_file.kind # "json"
       THEN LET attempt == attempt_idx + 1
                error == Event("error", "Failed to parse workflow.json", attempt, NoReport)
            IN  /\ IF LastAttempt(attempt_idx)
                   THEN /\ events' = Append(events, error)
                        /\ log' = Append(log, ParseEntry("error", attempt))
                        /\ ppc' = "finish"
                        /\ UNCHANGED <<workflow_file, attempt_idx>>
                   ELSE \E outcome \in AgentOutcomes(run_agent["pipeline"]),
                           content \in FileContents :
                          /\ log' = log \o <<ParseEntry("error", attempt),
                                             AgentRun("fix_parse", attempt, NoMarkdown)>>
                          /\ IF outcome = "exception"
                             THEN /\ events' = events \o
                                        <<error,
                                          Event("error", "Self-correction agent failed",
                                                attempt, NoReport)>>
                                  /\ ppc' = "finish"
                                  /\ UNCHANGED <<workflow_file, attempt_idx>>
                             ELSE /\ events' = Append(events, error) \o AgentMessages
                                  /\ workflow_file' = content
                                  /\ attempt_idx' = attempt_idx + 1
                                  /\ ppc' = "parse"
                /\ UNCHANGED <<final_workflow, custom_connectors, http_clients>>
                /\ UNCHANGED exec_vars
       ELSE LET wf == workflow_file.wf
                first == create_service_layer(settings, custom_connectors)
                missing == _collect_missing_services(wf, first)
            IN  \E outcomes \in [1..Len(missing) -> BuildOutcomes(run_agent["builder"])] :
                  LET b == BuildAll(missing, outcomes,
                                    [events |-> <<>>, custom |-> custom_connectors])
                      svcs == IF missing # <<>>
                              THEN create_service_layer(settings, b.custom)
                              ELSE first
                  IN  /\ final_workflow' = SomeWorkflow(wf)
                      /\ events' = Append(events, Ev("workflow", wf.id)) \o b.events
                      /\ custom_connectors' = b.custom
                      /\ http_clients' =
                            http_clients \o AsyncClients(settings)
                               \o (IF missing # <<>> THEN AsyncClients(settings)
                                   ELSE <<>>)
                      /\ ExecutorCreate(wf, svcs, NoFailureConfig)
                      /\ log' = log \o <<ParseEntry("ok", attempt_idx + 1),
                                         ExecuteEntry(attempt_idx + 1)>>
                      /\ ppc' = "execute"
                      /\ UNCHANGED <<workflow_file, attempt_idx>>
    /\ UNCHANGED <<variant, run_agent, settings, workflow_store, workspace,
                   final_report, completed_normally>>
    /\ UNCHANGED other_vars

\* execute returned: the execution_report event, the two breaks and the
\* repair by the agent
PipelineReport ==
    /\ variant = "pipeline"
    /\ ppc = "execute"
    /\ pc = "done"
    /\ final_report' = report
    /\ LET attempt == attempt_idx + 1
           ev == Event("execution_report", "", attempt, report)
       IN  IF Clean(report) \/ LastAttempt(attempt_idx)
           THEN /\ events' = Append(events, ev)
                /\ log' = Append(log, ReportEntry(attempt, report))
                /\ ppc' = "finish"
                /\ UNCHANGED <<workflow_file, attempt_idx>>
           ELSE \E outcome \in AgentOutcomes(run_agent["pipeline"]),
                   content \in FileContents :
                  /\ log' = log \o <<ReportEntry(attempt, report),
                                     AgentRun("fix_execution", attempt,
                                              to_markdown(report))>>
                  /\ IF outcome = "exception"
                     THEN /\ events' = events \o
                                <<ev, Event("text", "Running self-correction", attempt,
                                            NoReport),
                                  Event("error", "Self-correction agent failed", attempt,
                                        NoReport)>>
                          /\ ppc' = "finish"
                          /\ UNCHANGED <<workflow_file, attempt_idx>>
                     ELSE /\ events' = events \o
                                <<ev, Event("text", "Running self-correction", attempt,
                                            NoReport)>> \o AgentMessages
                          /\ workflow_file' = content
                          /\ attempt_idx' = attempt_idx + 1
                          /\ ppc' = "parse"
    /\ UNCHANGED <<variant, run_agent, settings, workflow_store, custom_connectors,
                   workspace, final_workflow, completed_normally>>
    /\ UNCHANGED exec_vars
    /\ UNCHANGED side_vars

\* execute raised: the exception leaves generate_workflow through the finally
\* clause, where completed_normally is False
PipelineEscape ==
    /\ variant = "pipeline"
    /\ ppc = "execute"
    /\ pc = "raised"
    /\ ppc' = "raised"
    /\ UNCHANGED <<variant, run_agent, settings, workflow_store, custom_connectors,
                   workspace, workflow_file, attempt_idx, final_report, final_workflow,
                   completed_normally, events, log>>
    /\ UNCHANGED exec_vars
    /\ UNCHANGED side_vars

\* mutant: the report's failures are not looked at
SaveConditionAnyReport(store, rep, wf) ==
    store.supplied /\ rep.returned /\ wf.some

\* `if workflow_store and final_report and final_report.failed == 0 and
\* final_workflow is not None`
SaveCondition(store, rep, wf) ==
    store.supplied /\ rep.returned /\ rep.failed = 0 /\ wf.some

\* after the loop: save, the workspace event, completed_normally = True and
\* the finally clause
PipelineFinish ==
    /\ variant = "pipeline"
    /\ ppc = "finish"
    /\ IF SaveCondition(workflow_store, final_report, final_workflow)
       THEN /\ workflow_store' =
                  [workflow_store EXCEPT
                      !.files = WorkflowStoreSave(workflow_store.files, final_workflow.wf)]
            /\ events' = events \o <<Ev("workflow_saved", final_workflow.wf.id),
                                     Ev("workspace", "")>>
       ELSE /\ events' = Append(events, Ev("workspace", ""))
            /\ UNCHANGED workflow_store
    /\ completed_normally' = TRUE
    /\ workspace' = FALSE
    /\ ppc' = "returned"
    /\ UNCHANGED <<variant, run_agent, settings, custom_connectors, workflow_file,
                   attempt_idx, final_report, final_workflow, log>>
    /\ UNCHANGED exec_vars
    /\ UNCHANGED side_vars

\* `if attempt > MAX_FIX_ATTEMPTS: break` of agents/workflow_agent.py
AttemptsExhausted(attempt) == attempt > MAX_FIX_ATTEMPTS

\* agents/workflow_agent.py, the draft: run_agent outside any try, then
\* `if not workflow_file.exists()`
AgentDraft ==
    /\ variant = "workflow_agent"
    /\ ppc = "draft"
    /\ \E outcome \in AgentOutcomes(run_agent["workflow_agent"]), content \in FileContents :
          /\ log' = Append(log, AgentRun("draft", 0, NoMarkdown))
          /\ IF outcome = "exception"
             THEN /\ ppc' = "raised"
                  /\ UNCHANGED <<events, workflow_file>>
             ELSE /\ workflow_file' = content
                  /\ IF ~Exists(content)
                     THEN /\ events' = events \o AgentMessages \o
                                <<Ev("error", "Agent did not produce workflow.json"),
                                  Ev("workspace", "")>>
                          /\ ppc' = "returned"
                     ELSE /\ events' = events \o AgentMessages
                          /\ ppc' = "parse"
    /\ UNCHANGED <<variant, run_agent, settings, workflow_store, custom_connectors,
                   workspace, attempt_idx, final_report, final_workflow,
                   completed_normally>>
    /\ UNCHANGED exec_vars
    /\ UNCHANGED side_vars

\* agents/workflow_agent.py, one pass of the loop up to the call of execute
\* (attempt is attempt_idx + 1)
AgentParse ==
    /\ variant = "workflow_agent"
    /\ ppc = "parse"
    /\ LET attempt == attempt_idx + 1
           error == Event("error", "Failed to parse workflow.json", attempt, NoReport)
       IN  IF workflow_file.kind # "json"
           THEN /\ IF AttemptsExhausted(attempt)
                   THEN /\ events' = Append(events, error)
                        /\ log' = Append(log, ParseEntry("error", attempt))
                        /\ ppc' = "finish"
                        /\ UNCHANGED <<workflow_file, attempt_idx>>
                   ELSE \E outcome \in AgentOutcomes(run_agent["workflow_agent"]),
                           content \in FileContents :
                          /\ log' = log \o <<ParseEntry("error", attempt),
                                             AgentRun("fix_parse", attempt, NoMarkdown)>>
                          /\ IF outcome = "exception"
                             THEN /\ events' = events \o
                                        <<error, Event("text", "Running self-correction",
                                                       attempt, NoReport)>>
                                  /\ ppc' = "raised"
                                  /\ UNCHANGED <<workflow_file, attempt_idx>>
                             ELSE /\ events' = events \o
                                        <<error, Event("text", "Running self-correction",
                                                       attempt, NoReport)>>
                                        \o AgentMessages
                                  /\ workflow_file' = content
                                  /\ attempt_idx' = attempt_idx + 1
                                  /\ ppc' = "parse"
                /\ UNCHANGED final_workflow
                /\ UNCHANGED exec_vars
           ELSE /\ final_workflow' = SomeWorkflow(workflow_file.wf)
                /\ events' = Append(events, Ev("workflow", workflow_file.wf.id))
                /\ ExecutorCreate(workflow_file.wf, SimServices, NoFailureConfig)
                /\ log' = log \o <<ParseEntry("ok", attempt), ExecuteEntry(attempt)>>
                /\ ppc' = "execute"
                /\ UNCHANGED <<workflow_file, attempt_idx>>
    /\ UNCHANGED <<variant, run_agent, settings, workflow_store, custom_connectors,
                   workspace, final_report, completed_normally>>
    /\ UNCHANGED side_vars

\* agents/workflow_agent.py: execute returned
AgentReport ==
    /\ variant = "workflow_agent"
    /\ ppc = "execute"
    /\ pc = "done"
    /\ final_report' = report
    /\ LET attempt == attempt_idx + 1
           ev == Event("execution_report", "", attempt, report)
       IN  IF report.failed = 0 \/ AttemptsExhausted(attempt)
           THEN /\ events' = Append(events, ev)
                /\ log' = Append(log, ReportEntry(attempt, report))
                /\ ppc' = "finish"
                /\ UNCHANGED <<workflow_file, attempt_idx>>
           ELSE \E outcome \in AgentOutcomes(run_agent["workflow_agent"]),
                   content \in FileContents :
                  /\ log' = log \o <<ReportEntry(attempt, report),
                                     AgentRun("fix_execution", attempt,
                                              to_markdown(report))>>
                  /\ events' = events \o
                        <<ev, Event("text", "Running self-correction", attempt, NoReport)>>
                        \o (IF outcome = "exception" THEN <<>> ELSE AgentMessages)
                  /\ IF outcome = "exception"
                     THEN /\ ppc' = "raised"
                          /\ UNCHANGED <<workflow_file, attempt_idx>>
                     ELSE /\ workflow_file' = content
                          /\ attempt_idx' = attempt_idx + 1
                          /\ ppc' = "parse"
    /\ UNCHANGED <<variant, run_agent, settings, workflow_store, custom_connectors,
                   workspace, final_workflow, completed_normally>>
    /\ UNCHANGED exec_vars
    /\ UNCHANGED side_vars

\* agents/workflow_agent.py: execute raised, the exception leaves the generator
AgentEscape ==
    /\ variant = "workflow_agent"
    /\ ppc = "execute"
    /\ pc = "raised"
    /\ ppc' = "raised"
    /\ UNCHANGED <<variant, run_agent, settings, workflow_store, custom_connectors,
                   workspace, workflow_file, attempt_idx, final_report, final_workflow,
                   completed_normally, events, log>>
    /\ UNCHANGED exec_vars
    /\ UNCHANGED side_vars

\* agents/workflow_agent.py, after the loop: save and the workspace event
AgentFinish ==
    /\ variant = "workflow_agent"
    /\ ppc = "finish"
    /\ IF workflow_store.supplied /\ final_report.returned /\ final_report.failed = 0
       THEN /\ workflow_store' =
                  [workflow_store EXCEPT
                      !.files = WorkflowStoreSave(workflow_store.files, final_workflow.wf)]
            /\ events' = events \o <<Ev("workflow_saved", final_workflow.wf.id),
                                     Ev("workspace", "")>>
       ELSE /\ events' = Append(events, Ev("workspace", ""))
            /\ UNCHANGED workflow_store
    /\ ppc' = "returned"
    /\ UNCHANGED <<variant, run_agent, settings, custom_connectors, workspace,
                   workflow_file, attempt_idx, final_report, final_workflow,
                   completed_normally, log>>
    /\ UNCHANGED exec_vars
    /\ UNCHANGED side_vars

\* the consumer closes the stream (aclose, or the generator is dropped) while
\* generate_workflow is suspended at a yield: GeneratorExit is raised there,
\* no `except Exception` catches it, and the finally clause of the pipeline
\* finds completed_normally False
StreamClose ==
    /\ variant \in {"pipeline", "workflow_agent"}
    /\ ppc \in {"parse", "finish"}
    /\ events # <<>>
    /\ ppc' = "closed"
    /\ workspace' = IF variant = "pipeline" /\ completed_normally THEN FALSE ELSE workspace
    /\ UNCHANGED <<variant, run_agent, settings, workflow_store, custom_connectors,
                   workflow_file, attempt_idx, final_report, final_workflow,
                   completed_normally, events, log>>
    /\ UNCHANGED exec_vars
    /\ UNCHANGED side_vars

\* the bindings of the name run_agent in the three modules that call it
Bindings ==
    {[m \in {"pipeline", "workflow_agent", "builder"} |-> "base"],
     [m \in {"pipeline", "workflow_agent", "builder"} |->
         IF m = "builder" THEN "base" ELSE "double"],
     [m \in {"pipeline", "workflow_agent", "builder"} |-> "double"]}

SettingsChoices ==
    {Settings("simulator", {}), Settings("hybrid", {}), Settings("hybrid", {"hr"})}

\* a workflow an earlier run persisted: the onboarding chain with one more
\* dependency, under the id and version the agent uses again
EarlierWorkflow ==
    Workflow({<<"a", "b">>, <<"b", "c">>, <<"a", "c">>}, OnboardingKinds,
             OnboardingGlobals)

\* the workflow_store argument: None, a store on an empty directory, or the
\* store of main.py holding what an earlier run saved
StoreChoices ==
    {[supplied |-> FALSE, files |-> <<>>],
     [supplied |-> TRUE, files |-> <<>>],
     [supplied |-> TRUE, files |-> WorkflowStoreSave(<<>>, EarlierWorkflow)]}

\* the state at the first statement of generate_workflow, after mkdtemp
PlannerInit(v, binding, stg, store) ==
    /\ variant = v
    /\ run_agent = binding
    /\ settings = stg
    /\ workflow_store = store
    /\ custom_connectors = {}
    /\ workspace = TRUE
    /\ workflow_file = Absent
    /\ ppc = "draft"
    /\ attempt_idx = 0
    /\ final_report = NoReport
    /\ final_workflow = NoneWorkflow
    /\ completed_normally = FALSE
    /\ events = <<>>
    /\ log = <<>>

\* no generate_workflow is running: the executor is driven directly, under
\* the settings stg and with the files `custom` in CUSTOM_CONNECTOR_DIR
PlannerIdle(stg, custom) ==
    /\ variant = "none"
    /\ run_agent = [m \in {"pipeline", "workflow_agent", "builder"} |-> "base"]
    /\ settings = stg
    /\ workflow_store = [supplied |-> FALSE, files |-> <<>>]
    /\ custom_connectors = custom
    /\ workspace = FALSE
    /\ workflow_file = Absent
    /\ ppc = "off"
    /\ attempt_idx = 0
    /\ final_report = NoReport
    /\ final_workflow = NoneWorkflow
    /\ completed_normally = FALSE
    /\ events = <<>>
    /\ log = <<>>

PlannerOff == PlannerIdle(Settings("simulator", {}), {})

\* the class object a built-in connector module registers at import
BuiltinClass == [origin |-> "builtin", complete |-> TRUE]

\* the registry map after `from . import github, google, hr, jira, slack`, a
\* ConnectorRegistry just constructed, an empty CUSTOM_CONNECTOR_DIR
RegistryOff ==
    /\ builtin_registry = [name \in _BUILTIN_REGISTRY |-> BuiltinClass]
    /\ registry_cache = <<>>
    /\ instances = 0
    /\ custom_dir = <<>>
    /\ copy_pc = "idle"

NoCmdResult ==
    [returned |-> FALSE, stdout |-> 0, stderr |-> 0, was_truncated |-> FALSE,
     timed_out |-> FALSE]

\* no command is running
CommandOff ==
    /\ proc = [leader |-> "none"]
    /\ th = [t \in {"main", "out", "err"} |-> "idle"]
    /\ wait_lock = "free"
    /\ total = [t \in {"out", "err"} |-> 0]
    /\ pipes_closed = FALSE
    /\ now = 0
    /\ deadline = [t \in {"main", "out", "err"} |-> 0]
    /\ signals = <<>>
    /\ cmd_result = NoCmdResult

\* the runs of generate_workflow that are under way side by side
Runs == {1, 2}

\* no service layer has been assembled
LayersOff ==
    /\ heap = <<>>
    /\ layers = <<>>
    /\ run_layer = [r \in Runs |-> 0]

\* no execution has been recorded for comparison
NoRun ==
    [done |-> FALSE, order |-> <<>>, steps |-> <<>>, counts |-> <<0, 0, 0>>,
     injected |-> {}, raised |-> "none", returned |-> FALSE]

TwinOff ==
    /\ entropy = 0
    /\ first_run = NoRun

\* the components around the executor and the planner, before any use
SideOff ==
    /\ http_clients = <<>>
    /\ connector_file = [exists |-> FALSE]
    /\ RegistryOff
    /\ CommandOff
    /\ LayersOff
    /\ TwinOff

-----------------------------------------------------------------------------
(* Specifications *)

vars == <<exec_vars, plan_vars, side_vars>>

\* one execution of a workflow against the simulator
Init ==
    /\ \E wf \in Workflows, fc \in FailureConfigs : ExecutorInit(wf, SimServices, fc)
    /\ PlannerOff
    /\ SideOff

Next == ExecStart \/ ExecNode \/ ExecFinish

Spec == Init /\ [][Next]_vars

\* one execution of a workflow against the service layer of a deployment:
\* the settings and the files of CUSTOM_CONNECTOR_DIR
Deployments ==
    {<<Settings("hybrid", {"hr"}), {}>>,
     <<Settings("real", _BUILTIN_REGISTRY), {}>>,
     <<Settings("hybrid", {"google"}), {"zendesk", "crm"}>>,
     <<Settings("simulator", {"hr", "zendesk"}), {"zendesk"}>>}

ConnectorLayers == {create_service_layer(d[1], d[2]) : d \in Deployments}

InitConn ==
    \E wf \in Workflows, d \in Deployments :
       /\ ExecutorInit(wf, create_service_layer(d[1], d[2]), NoFailureConfig)
       /\ PlannerIdle(d[1], d[2])
       /\ SideOff

SpecConn == InitConn /\ [][Next]_vars

\* one execution, against the service layer of a deployment, of a workflow
\* with nodes tagged "_http_client", a name no simulator service and no
\* connector carries
ClientWorkflows ==
    {Workflow(E, kinds, <<>>) : E \in EdgeSets, kinds \in [NodeIds -> {"hr", "client"}]}

InitClient ==
    \E wf \in ClientWorkflows, d \in Deployments :
       /\ ExecutorInit(wf, create_service_layer(d[1], d[2]), NoFailureConfig)
       /\ PlannerIdle(d[1], d[2])
       /\ SideOff

SpecClient == InitClient /\ [][Next]_vars

\* one execution of a workflow whose global parameters hold template text:
\* the name of another global, or of an output of the node a
TemplateGlobals ==
    {Dict2("employee_name", StrV(T("role")), "role", StrV(S("Engineer"))),
     Dict2("role", StrV(S("Engineer")), "employee_name", StrV(T("role"))),
     Dict2("employee_name", StrV(S("Alice Chen")), "role", StrV(T("a.employee_id")))}

TemplateWorkflows ==
    {Workflow(E, kinds, g) : E \in EdgeSets, kinds \in [NodeIds -> {"hr", "google"}],
                             g \in TemplateGlobals}

InitSubst ==
    /\ \E wf \in TemplateWorkflows : ExecutorInit(wf, SimServices, NoFailureConfig)
    /\ PlannerOff
    /\ SideOff

SpecSubst == InitSubst /\ [][Next]_vars

\* one run of generate_workflow
InitPlan ==
    /\ ExecutorIdle
    /\ \E v \in {"pipeline", "workflow_agent"}, binding \in Bindings,
          stg \in SettingsChoices, store \in StoreChoices :
          PlannerInit(v, binding, stg, store)
    /\ SideOff

NextPlan ==
    \/ PipelineDraft \/ PipelineParse \/ PipelineReport \/ PipelineEscape
    \/ PipelineFinish
    \/ AgentDraft \/ AgentParse \/ AgentReport \/ AgentEscape \/ AgentFinish
    \/ StreamClose
    \/ ExecStart \/ ExecNode \/ ExecFinish

SpecPlan == InitPlan /\ [][NextPlan]_vars

\* the simulator services called directly, as the tests of the simulator
\* do: service.action(node_id, **params), in any order
MaxCalls == 3

Alice == StrV(S("Alice Chen"))
Bob == StrV(S("Bob Lee"))
AliceMail == StrV(S("alice.chen@company.com"))
EmptyStr == StrV(<<>>)
NoParams == [name \in {} |-> NoneV]

\* the keyword arguments the calls are made with
CallParams(service, action) ==
    CASE action = "create_employee" -> {NoParams, "employee_name" :> Alice}
      [] action = "enroll_benefits" ->
            {NoParams, "employee_id" :> StrV(S("EMP-1"))}
      [] action = "provision_account" ->
            {NoParams, "employee_name" :> Alice, "employee_name" :> Bob,
             ("employee_name" :> Alice) @@ ("email" :> EmptyStr)}
      [] action = "invite_user" ->
            {NoParams, "email" :> EmptyStr, "email" :> AliceMail}
      [] action = "assign_issue" ->
            {NoParams, "issue_key" :> StrV(S("ONBOARD-1"))}
      [] action = "add_to_org" ->
            {NoParams, "username" :> StrV(S("alice")),
             ("username" :> StrV(S("alice"))) @@ ("employee_name" :> Alice)}
      [] action = "grant_repo_access" ->
            {NoParams, "username" :> EmptyStr, "username" :> StrV(S("alice"))}
      [] OTHER -> {NoParams}

\* one call service.action(node_id, **params) and what it did
Invoke(service, action, node_id, params) ==
    LET r == SimCall(service, action, state, node_id, params, FreshUid(state))
    IN  /\ state' = r.st
        /\ trace' = trace \o r.logged
        /\ calls' = Append(calls,
              [node_id |-> node_id, service |-> service, action |-> action,
               params |-> params, before |-> state, exc |-> r.exc,
               error_type |-> r.error_type, logged |-> r.logged,
               result |-> r.result])
        /\ UNCHANGED <<workflow, services, failure_config, node_outputs, pc, order,
                       pos, failed_nodes, skipped_nodes, successful, failed, skipped,
                       dependency_violations, report, raised, failures>>
        /\ UNCHANGED plan_vars

\* the calls a test makes of one service object
Calls(service) ==
    \E action \in SimActions[service] :
       \E params \in CallParams(service, action) :
          Invoke(service, action, "n" \o ToString(Len(calls) + 1), params)

HRCall ==
    /\ pc = "direct" /\ Len(calls) < MaxCalls
    /\ Calls("hr")
    /\ UNCHANGED side_vars

GoogleCall ==
    /\ pc = "direct" /\ Len(calls) < MaxCalls
    /\ Calls("google")
    /\ UNCHANGED side_vars

SlackCall ==
    /\ pc = "direct" /\ Len(calls) < MaxCalls
    /\ Calls("slack")
    /\ UNCHANGED side_vars

JiraCall ==
    /\ pc = "direct" /\ Len(calls) < MaxCalls
    /\ Calls("jira")
    /\ UNCHANGED side_vars

GitHubCall ==
    /\ pc = "direct" /\ Len(calls) < MaxCalls
    /\ Calls("github")
    /\ UNCHANGED side_vars

\* create_simulator(): a fresh state and trace, nothing called yet
InitSim ==
    /\ workflow = NoWorkflow
    /\ services = SimServices
    /\ failure_config = NoFailureConfig
    /\ state = SimulatorState
    /\ trace = ExecutionTrace
    /\ node_outputs = <<>>
    /\ pc = "direct"
    /\ order = <<>>
    /\ pos = 0
    /\ failed_nodes = {}
    /\ skipped_nodes = {}
    /\ successful = 0
    /\ failed = 0
    /\ skipped = 0
    /\ dependency_violations = <<>>
    /\ report = NoReport
    /\ raised = "none"
    /\ calls = <<>>
    /\ failures = <<>>
    /\ PlannerOff
    /\ SideOff

NextSim == HRCall \/ GoogleCall \/ SlackCall \/ JiraCall \/ GitHubCall

SpecSim == InitSim /\ [][NextSim]_vars

\* the WorkflowStore used directly: save, load, list_by_team, delete
MaxFiles == 3

\* the characters of the file names, in the order of their code points
Alphabet ==
    <<"-", ".", "0", "1", "2", "3", "4", "5", "6", "7", "8", "9",
      "a", "b", "d", "g", "i", "j", "n", "o", "r", "s", "v">>

Ord(c) == CHOOSE i \in 1..Len(Alphabet) : Alphabet[i] = c

\* str(n) of a non-negative int
RECURSIVE Digits(_)
Digits(n) ==
    IF n < 10 THEN <<Alphabet[n + 3]>>
    ELSE Digits(n \div 10) \o <<Alphabet[(n % 10) + 3]>>

\* the characters of a workflow id
IdChars(id) ==
    CASE id = "a" -> <<"a">>
      [] id = "a-vb" -> <<"a", "-", "v", "b">>
      [] OTHER -> <<"o", "n", "b", "o", "a", "r", "d", "i", "n", "g">>

\* f"{workflow.id}-v{workflow.version}.json"
FileName(wf) ==
    IdChars(wf.id) \o <<"-", "v">> \o Digits(wf.version) \o <<".", "j", "s", "o", "n">>

\* x < y of two str (and of two paths in one directory)
RECURSIVE StrLess(_, _)
StrLess(x, y) ==
    IF y = <<>> THEN FALSE
    ELSE IF x = <<>> THEN TRUE
    ELSE IF Head(x) # Head(y) THEN Ord(Head(x)) < Ord(Head(y))
    ELSE StrLess(Tail(x), Tail(y))

\* the order sorted() puts two files of one team directory in
PathLess(f, g) == StrLess(FileName(f), FileName(g))

\* sorted(files, reverse=True)
RECURSIVE SortedReverse(_)
SortedReverse(files) ==
    IF files = {} THEN <<>>
    ELSE LET top == CHOOSE f \in files : \A g \in files : g = f \/ PathLess(g, f)
         IN  <<top>> \o SortedReverse(files \ {top})

\* the files of team_dir (an empty set also if the directory does not exist)
TeamDir(files, team) == {files[i].v : i \in {j \in 1..Len(files) : files[j].v.team = team}}

\* team_dir.glob(f"{workflow_id}-v*.json")
Glob(files, team, workflow_id) ==
    LET prefix == IdChars(workflow_id) \o <<"-", "v">>
    IN  {f \in TeamDir(files, team) :
            /\ Len(FileName(f)) >= Len(prefix) + 5
            /\ SubSeq(FileName(f), 1, Len(prefix)) = prefix}

\* WorkflowStore.load
load(files, workflow_id, team) ==
    LET matches == SortedReverse(Glob(files, team, workflow_id))
    IN  IF matches = <<>> THEN NoneWorkflow ELSE SomeWorkflow(matches[1])

\* the loop of list_by_team over the sorted files
RECURSIVE Dedup(_, _, _)
Dedup(sorted, seen_ids, workflows) ==
    IF sorted = <<>> THEN workflows
    ELSE IF Head(sorted).id \in seen_ids
    THEN Dedup(Tail(sorted), seen_ids, workflows)
    ELSE Dedup(Tail(sorted), seen_ids \cup {Head(sorted).id},
               Append(workflows, Head(sorted)))

\* WorkflowStore.list_by_team
list_by_team(files, team) == Dedup(SortedReverse(TeamDir(files, team)), {}, <<>>)

\* WorkflowStore.delete: the files left
delete(files, workflow_id, team) ==
    SelectSeq(files, LAMBDA file : file.v \notin Glob(files, team, workflow_id))

\* the workflows saved
StoreIds == {"a", "a-vb"}
StoreVersions == {1, 2, 10}
StoreTeams == {"default", "eng"}

StoredWorkflow(id, name, version) ==
    [id |-> id, name |-> name, team |-> "default", version |-> version,
     nodes |-> <<>>, parameters |-> <<>>]

StoreWorkflows ==
    {StoredWorkflow(id, name, version) :
        id \in StoreIds, name \in {"First", "Second"}, version \in StoreVersions}

\* the call made of the store and what it returned
StoreOp(op, workflow_id, team, result) ==
    [op |-> op, workflow_id |-> workflow_id, team |-> team,
     before |-> workflow_store.files, result |-> result]

StoreUnchanged ==
    /\ UNCHANGED <<variant, run_agent, settings, custom_connectors, workspace,
                   workflow_file, ppc, attempt_idx, final_report, final_workflow,
                   completed_normally, events>>
    /\ UNCHANGED exec_vars

StoreSave ==
    /\ ppc = "store"
    /\ \E wf \in StoreWorkflows :
          /\ Len(workflow_store.files) < MaxFiles
                \/ Has(workflow_store.files, StorePathOf(wf))
          /\ workflow_store' =
                [workflow_store EXCEPT !.files = WorkflowStoreSave(@, wf)]
          /\ log' = <<StoreOp("save", wf.id, wf.team, <<wf.id>>)>>
    /\ StoreUnchanged
    /\ UNCHANGED side_vars

StoreLoad ==
    /\ ppc = "store"
    /\ \E workflow_id \in StoreIds, team \in StoreTeams :
          log' = <<StoreOp("load", workflow_id, team,
                           <<load(workflow_store.files, workflow_id, team)>>)>>
    /\ UNCHANGED workflow_store
    /\ StoreUnchanged
    /\ UNCHANGED side_vars

StoreList ==
    /\ ppc = "store"
    /\ \E team \in StoreTeams :
          log' = <<StoreOp("list_by_team", "", team,
                           list_by_team(workflow_store.files, team))>>
    /\ UNCHANGED workflow_store
    /\ StoreUnchanged
    /\ UNCHANGED side_vars

StoreDelete ==
    /\ ppc = "store"
    /\ \E workflow_id \in StoreIds, team \in StoreTeams :
          /\ workflow_store' =
                [workflow_store EXCEPT !.files = delete(@, workflow_id, team)]
          /\ log' = <<StoreOp("delete", workflow_id, team,
                              <<Glob(workflow_store.files, team, workflow_id) # {}>>)>>
    /\ StoreUnchanged
    /\ UNCHANGED side_vars

\* WorkflowStore(base_dir) on an empty directory
InitStore ==
    /\ ExecutorIdle
    /\ variant = "none"
    /\ run_agent = [m \in {"pipeline", "workflow_agent", "builder"} |-> "base"]
    /\ settings = Settings("simulator", {})
    /\ workflow_store = [supplied |-> TRUE, files |-> <<>>]
    /\ custom_connectors = {}
    /\ workspace = FALSE
    /\ workflow_file = Absent
    /\ ppc = "store"
    /\ attempt_idx = 0
    /\ final_report = NoReport
    /\ final_workflow = NoneWorkflow
    /\ completed_normally = FALSE
    /\ events = <<>>
    /\ log = <<>>
    /\ SideOff

NextStore == StoreSave \/ StoreLoad \/ StoreList \/ StoreDelete

SpecStore == InitStore /\ [][NextStore]_vars

-----------------------------------------------------------------------------
(* The real connectors, awaited directly against an HTTP server *)

MaxRequests == 2

\* resp.status_code of the responses the server gives
StatusCodes == {200, 201, 204, 401, 403, 404, 409, 429, 500}

\* the body of a response: a JSON object with "ok": true ("ok"), one with
\* "ok": false and "error": <the name>, or a body that is no JSON ("html")
Bodies == {"ok", "invalid_auth", "ratelimited", "html"}

Response(status_code, body) == [status_code |-> status_code, body |-> body]

\* what an awaited connector action did
Raised(exc, error_type) == [exc |-> exc, error_type |-> error_type]
Returned == [exc |-> "none", error_type |-> ""]

\* HrConnector._check_error
Hr_check_error(resp) ==
    IF resp.status_code \in {200, 201, 204} THEN Returned
    ELSE IF resp.status_code = 401 THEN Raised("ServiceError", "auth_error")
    ELSE IF resp.status_code = 403 THEN Raised("ServiceError", "permission_denied")
    ELSE IF resp.status_code = 404 THEN Raised("ServiceError", "not_found")
    ELSE IF resp.status_code = 409 THEN Raised("ServiceError", "already_exists")
    ELSE Raised("ServiceError", "connector_error")

\* JiraConnector._check_error
Jira_check_error(resp) ==
    IF resp.status_code \in {200, 201, 204} THEN Returned
    ELSE IF resp.status_code = 401 THEN Raised("ServiceError", "auth_error")
    ELSE IF resp.status_code = 403 THEN Raised("ServiceError", "permission_denied")
    ELSE IF resp.status_code = 404 THEN Raised("ServiceError", "not_found")
    ELSE Raised("ServiceError", "connector_error")

\* the status checks of GithubConnector.add_to_org and grant_repo_access
Github_check(resp, accepted) ==
    IF resp.status_code = 403 THEN Raised("ServiceError", "permission_denied")
    ELSE IF resp.status_code = 404 THEN Raised("ServiceError", "not_found")
    ELSE IF resp.status_code \notin accepted
    THEN Raised("ServiceError", "connector_error")
    ELSE Returned

\* the status check of GoogleConnector.send_email and create_calendar_event
Google_check(resp) ==
    IF resp.status_code \notin {200, 201}
    THEN Raised("ServiceError", "connector_error")
    ELSE Returned

\* SlackConnector._map_error
Slack_map_error(error_code) ==
    CASE error_code = "name_taken" -> Raised("ServiceError", "already_exists")
      [] error_code = "ratelimited" -> Raised("ServiceError", "rate_limit")
      [] error_code \in {"not_in_channel", "missing_scope"} ->
            Raised("ServiceError", "permission_denied")
      [] error_code = "channel_not_found" -> Raised("ServiceError", "not_found")
      [] OTHER -> Raised("ServiceError", "connector_error")

\* data = resp.json(); if not data.get("ok"): self._map_error(data.get("error"))
Slack_check(resp) ==
    IF resp.body = "html" THEN Raised("JSONDecodeError", "")
    ELSE IF resp.body # "ok" THEN Slack_map_error(resp.body)
    ELSE Returned

\* SlackConnector.invite_user, the response being that of users.lookupByEmail
\* ("lookup") or of conversations.invite ("invite"), the other requests
\* succeeding
Slack_invite_user_real(resp, which) ==
    IF resp.body = "html" THEN Raised("JSONDecodeError", "")
    ELSE IF which = "lookup"
    THEN IF resp.body # "ok" THEN Raised("ServiceError", "not_found") ELSE Returned
    ELSE IF resp.body \notin {"ok", "already_in_channel"}
    THEN Slack_map_error(resp.body)
    ELSE Returned

\* await connector.action(node_id, **params), the server answering the
\* action's request with resp
ConnCall(service, action, resp, which) ==
    CASE service = "hr" -> Hr_check_error(resp)
      [] service = "jira" /\ action = "assign_issue" ->
            IF resp.status_code \notin {200, 204}
            THEN Jira_check_error(resp) ELSE Returned
      [] service = "jira" -> Jira_check_error(resp)
      [] service = "github" /\ action = "add_to_org" ->
            Github_check(resp, {200, 201})
      [] service = "github" -> Github_check(resp, {200, 201, 204})
      [] service = "google" /\ action = "provision_account" ->
            \* _temp_password(employee_name): the function takes no argument
            Raised("TypeError", "")
      [] service = "google" -> Google_check(resp)
      [] service = "slack" /\ action = "invite_user" ->
            Slack_invite_user_real(resp, which)
      [] OTHER -> Slack_check(resp)

\* the responses a request of the connector is answered with: only the Slack
\* connector reads the body of a failed request
Responses(service) ==
    {Response(status_code, body) :
        status_code \in StatusCodes,
        body \in IF service = "slack" THEN Bodies ELSE {"ok"}}

\* one awaited call of an action of the connector and what it did
Request(service) ==
    \E action \in SimActions[service], resp \in Responses(service),
       which \in {"lookup", "invite"} :
       LET r == ConnCall(service, action, resp, which)
           node_id == "n" \o ToString(Len(calls) + 1)
       IN  /\ which = "invite" => service = "slack" /\ action = "invite_user"
           /\ calls' = Append(calls,
                 [node_id |-> node_id, service |-> service, action |-> action,
                  resp |-> resp, which |-> which, exc |-> r.exc,
                  error_type |-> r.error_type])
           /\ trace' = IF r.exc = "none"
                       THEN Append(trace, TraceStep(node_id, service, action, <<>>,
                                                    NoResult, "success", NoError))
                       ELSE trace
           /\ UNCHANGED <<workflow, services, failure_config, state, node_outputs,
                          pc, order, pos, failed_nodes, skipped_nodes, successful,
                          failed, skipped, dependency_violations, report, raised,
                          failures>>
           /\ UNCHANGED plan_vars
           /\ UNCHANGED side_vars

HrRequest ==
    /\ pc = "http" /\ Len(calls) < MaxRequests
    /\ Request("hr")

GoogleRequest ==
    /\ pc = "http" /\ Len(calls) < MaxRequests
    /\ Request("google")

SlackRequest ==
    /\ pc = "http" /\ Len(calls) < MaxRequests
    /\ Request("slack")

JiraRequest ==
    /\ pc = "http" /\ Len(calls) < MaxRequests
    /\ Request("jira")

GithubRequest ==
    /\ pc = "http" /\ Len(calls) < MaxRequests
    /\ Request("github")

\* the connectors of a real-mode service layer, nothing requested yet
InitHttp ==
    /\ workflow = NoWorkflow
    /\ services = create_service_layer(Settings("real", _BUILTIN_REGISTRY), {})
    /\ failure_config = NoFailureConfig
    /\ state = SimulatorState
    /\ trace = ExecutionTrace
    /\ node_outputs = <<>>
    /\ pc = "http"
    /\ order = <<>>
    /\ pos = 0
    /\ failed_nodes = {}
    /\ skipped_nodes = {}
    /\ successful = 0
    /\ failed = 0
    /\ skipped = 0
    /\ dependency_violations = <<>>
    /\ report = NoReport
    /\ raised = "none"
    /\ calls = <<>>
    /\ failures = <<>>
    /\ PlannerIdle(Settings("real", _BUILTIN_REGISTRY), {})
    /\ http_clients = <<"open">>
    /\ connector_file = [exists |-> FALSE]
    /\ RegistryOff
    /\ CommandOff
    /\ LayersOff
    /\ TwinOff

NextHttp == HrRequest \/ GoogleRequest \/ SlackRequest \/ JiraRequest \/ GithubRequest

SpecHttp == InitHttp /\ [][NextHttp]_vars

-----------------------------------------------------------------------------
(* One ConnectorRegistry, and a build_connector installing a file meanwhile *)

MaxLookups == 3

\* shutil.copy2 writes the destination in this many pieces (it opens the
\* destination for writing, which creates it empty, then copies the data)
Chunks == 2

\* what a generated connector module does when it is executed: "template"
\* follows BUILDER_SYSTEM_PROMPT (its class is decorated with @register),
\* "undecorated" defines the class without the decorator, "late_raise" defines
\* the decorated class and then raises, "raises" raises at its first import
ModuleKinds == {"template", "undecorated", "late_raise", "raises"}

\* None, where a class or an instance is expected
NoClass == [origin |-> "none", complete |-> FALSE]
NoInstance == [id |-> 0, cls |-> NoClass]

\* _load_custom_connector(path, service_name) on a file of CUSTOM_CONNECTOR_DIR:
\* the class it returns (NoClass for None) and whether executing the module
\* called register(cls).  A file still being written holds a prefix of the
\* module: it raises (cut = "raise") or defines a class cut short.
exec_module(file, cut) ==
    LET whole == file.written = Chunks
        cls == [origin |-> file.kind, complete |-> whole]
    IN  IF file.written = 0 \/ file.kind = "raises" \/ (~whole /\ cut = "raise")
        THEN [cls |-> NoClass, registered |-> NoClass]
        ELSE IF file.kind = "undecorated"
        THEN [cls |-> cls, registered |-> NoClass]
        ELSE IF file.kind = "late_raise" /\ whole
        THEN [cls |-> NoClass, registered |-> cls]
        ELSE [cls |-> cls, registered |-> cls]

\* the registry as ConnectorRegistry.get finds it
Reg == [cache |-> registry_cache, builtin |-> builtin_registry,
        dir |-> custom_dir, made |-> instances]

\* mutant: the instance is returned without being stored in the cache
registry_get_uncached(reg, service_name, cut) ==
    IF Has(reg.cache, service_name)
    THEN [reg |-> reg, result |-> Lookup(reg.cache, service_name), via |-> "cache",
          seen |-> "not_read"]
    ELSE IF service_name \in DOMAIN reg.builtin
    THEN [reg |-> [reg EXCEPT !.made = @ + 1],
          result |-> [id |-> reg.made + 1, cls |-> reg.builtin[service_name]],
          via |-> "builtin", seen |-> "not_read"]
    ELSE [reg |-> reg, result |-> NoInstance, via |-> "none", seen |-> "absent"]

\* ConnectorRegistry.get(service_name): the instance it returns (NoInstance
\* for None), where it came from, what it saw of the custom file, and the
\* registry afterwards
registry_get(reg, service_name, cut) ==
    IF Has(reg.cache, service_name)
    THEN [reg |-> reg, result |-> Lookup(reg.cache, service_name), via |-> "cache",
          seen |-> "not_read"]
    ELSE IF service_name \in DOMAIN reg.builtin
    THEN LET instance == [id |-> reg.made + 1, cls |-> reg.builtin[service_name]]
         IN  [reg |-> [reg EXCEPT !.made = @ + 1,
                                  !.cache = Put(@, service_name, instance)],
              result |-> instance, via |-> "builtin", seen |-> "not_read"]
    ELSE IF ~Has(reg.dir, service_name)
    THEN [reg |-> reg, result |-> NoInstance, via |-> "none", seen |-> "absent"]
    ELSE LET file == Lookup(reg.dir, service_name)
             m == exec_module(file, cut)
             seen == IF file.written = Chunks THEN "complete" ELSE "partial"
             registered ==
                IF m.registered = NoClass THEN reg.builtin
                ELSE [name \in DOMAIN reg.builtin \cup {service_name} |->
                         IF name = service_name THEN m.registered
                         ELSE reg.builtin[name]]
         IN  IF m.cls = NoClass
             THEN [reg |-> [reg EXCEPT !.builtin = registered],
                   result |-> NoInstance, via |-> "none", seen |-> seen]
             ELSE LET instance == [id |-> reg.made + 1, cls |-> m.cls]
                  IN  [reg |-> [reg EXCEPT !.builtin = registered,
                                           !.made = @ + 1,
                                           !.cache = Put(@, service_name, instance)],
                       result |-> instance, via |-> "custom", seen |-> seen]

RegistryNames == {"hr", "zendesk"}

RegistryEntry(op, service_name, g) ==
    [op |-> op, name |-> service_name, result |-> g.result, via |-> g.via,
     seen |-> g.seen, before |-> Reg]

RegistryRest ==
    /\ UNCHANGED exec_vars
    /\ UNCHANGED <<variant, run_agent, settings, workflow_store, custom_connectors,
                   workspace, workflow_file, ppc, attempt_idx, final_report,
                   final_workflow, completed_normally, events>>
    /\ UNCHANGED <<http_clients, connector_file, cmd_vars, layer_vars, twin_vars>>

\* registry.get(service_name)
RegistryLookup ==
    /\ ppc = "registry" /\ Len(log) < MaxLookups
    /\ \E service_name \in RegistryNames, cut \in {"raise", "short"} :
          LET g == registry_get(Reg, service_name, cut)
          IN  /\ cut = "short" =>
                    /\ ~Has(registry_cache, service_name)
                    /\ Has(custom_dir, service_name)
                    /\ Lookup(custom_dir, service_name).written \in 1..(Chunks - 1)
              /\ registry_cache' = g.reg.cache
              /\ builtin_registry' = g.reg.builtin
              /\ instances' = g.reg.made
              /\ log' = Append(log, RegistryEntry("get", service_name, g))
    /\ UNCHANGED <<custom_dir, copy_pc>>
    /\ RegistryRest

\* registry.invalidate(service_name): self._cache.pop(service_name, None)
RegistryInvalidate ==
    /\ ppc = "registry" /\ Len(log) < MaxLookups
    /\ \E service_name \in RegistryNames :
          /\ registry_cache' =
                SelectSeq(registry_cache, LAMBDA e : e.k # service_name)
          /\ log' = Append(log, RegistryEntry("invalidate", service_name,
                              [result |-> NoInstance, via |-> "none", seen |-> "not_read"]))
    /\ UNCHANGED <<builtin_registry, instances, custom_dir, copy_pc>>
    /\ RegistryRest

\* shutil.copy2(connector_file, dest) of build_connector, in another run:
\* open(dest, "wb") creates the file empty
CopyOpen ==
    /\ ppc = "registry" /\ copy_pc = "idle"
    /\ \E kind \in ModuleKinds :
          custom_dir' = Put(custom_dir, "zendesk", [kind |-> kind, written |-> 0])
    /\ copy_pc' = "writing"
    /\ UNCHANGED <<builtin_registry, registry_cache, instances, log>>
    /\ RegistryRest

\* ... one piece of the data is written
CopyWrite ==
    /\ ppc = "registry" /\ copy_pc = "writing"
    /\ Lookup(custom_dir, "zendesk").written < Chunks
    /\ custom_dir' = Put(custom_dir, "zendesk",
                         [Lookup(custom_dir, "zendesk") EXCEPT !.written = @ + 1])
    /\ UNCHANGED <<builtin_registry, registry_cache, instances, copy_pc, log>>
    /\ RegistryRest

\* ... the data is complete: copystat, and copy2 returns
CopyStat ==
    /\ ppc = "registry" /\ copy_pc = "writing"
    /\ Lookup(custom_dir, "zendesk").written = Chunks
    /\ copy_pc' = "done"
    /\ UNCHANGED <<builtin_registry, registry_cache, instances, custom_dir, log>>
    /\ RegistryRest

InitRegistry ==
    /\ ExecutorIdle
    /\ variant = "none"
    /\ run_agent = [m \in {"pipeline", "workflow_agent", "builder"} |-> "base"]
    /\ settings = Settings("hybrid", {})
    /\ workflow_store = [supplied |-> FALSE, files |-> <<>>]
    /\ custom_connectors = {}
    /\ workspace = FALSE
    /\ workflow_file = Absent
    /\ ppc = "registry"
    /\ attempt_idx = 0
    /\ final_report = NoReport
    /\ final_workflow = NoneWorkflow
    /\ completed_normally = FALSE
    /\ events = <<>>
    /\ log = <<>>
    /\ SideOff

NextRegistry ==
    RegistryLookup \/ RegistryInvalidate \/ CopyOpen \/ CopyWrite \/ CopyStat

SpecRegistry == InitRegistry /\ [][NextRegistry]_vars

-----------------------------------------------------------------------------
(* validate_connector_file on the connector.py a builder agent wrote *)

\* the actions the connector is required to define, and the two classmethods
RequiredActions == <<"create_ticket", "close_ticket">>
Classmethods == <<"from_settings", "is_configured">>

\* connector.py by what validate_connector_file and the import look at:
\* does it parse; how many ClassDef nodes carry the expected name; of the
\* first of them: where `service_name = ...` is assigned ("class_equal": in the
\* class body, to the requested name; "class_other": in the class body, to
\* another name; "nested": only inside a method), which functions are
\* defined as its methods and which only nested deeper inside it; and does
\* the code at module level run without error when the module is executed
ConnectorFiles ==
    [exists : {TRUE}, parses : BOOLEAN, classes : 0..2,
     service_name : {"absent", "class_equal", "class_other", "nested"},
     methods : SUBSET {"create_ticket", "close_ticket", "from_settings",
                       "is_configured"},
     nested : {{}, {"close_ticket"}},
     module_runs : BOOLEAN]

\* [f(n) for n in names if n not in method_names]
MissingErrors(names, method_names, tag) ==
    LET missing == SelectSeq(names, LAMBDA n : n \notin method_names)
    IN  [i \in 1..Len(missing) |-> [error |-> tag, name |-> missing[i]]]

\* stage 2: the child process builds the module object from the file's spec
\* and never executes it, so its return code is 0 for every file
DryImportErrors(file) == <<>>

\* validate_connector_file(path, service_name, required_actions)
validate_connector_file(file, required_actions) ==
    IF ~file.parses THEN <<[error |-> "SyntaxError", name |-> ""]>>
    ELSE IF file.classes = 0 THEN <<[error |-> "class not found", name |-> ""]>>
    ELSE LET \* ast.walk(class_node) visits the whole subtree of the class
             method_names == file.methods \cup file.nested
             errors ==
                (IF file.service_name = "absent"
                 THEN <<[error |-> "missing service_name", name |-> ""]>>
                 ELSE <<>>)
                \o MissingErrors(required_actions, method_names, "method not found")
                \o MissingErrors(Classmethods, method_names, "classmethod not found")
         IN  IF errors # <<>> THEN errors ELSE DryImportErrors(file)

\* errors = validate_connector_file(connector_file, service_name, required_actions)
ValidateFile ==
    /\ ppc = "validate"
    /\ ppc' = "validated"
    /\ log' = <<[op |-> "validate",
                 errors |-> validate_connector_file(connector_file, RequiredActions)]>>
    /\ UNCHANGED exec_vars
    /\ UNCHANGED <<variant, run_agent, settings, workflow_store, custom_connectors,
                   workspace, workflow_file, attempt_idx, final_report,
                   final_workflow, completed_normally, events>>
    /\ UNCHANGED side_vars

\* build_connector after the agent session: connector.py exists in the workspace
InitValidate ==
    /\ ExecutorIdle
    /\ variant = "none"
    /\ run_agent = [m \in {"pipeline", "workflow_agent", "builder"} |-> "base"]
    /\ settings = Settings("hybrid", {})
    /\ workflow_store = [supplied |-> FALSE, files |-> <<>>]
    /\ custom_connectors = {}
    /\ workspace = TRUE
    /\ workflow_file = Absent
    /\ ppc = "validate"
    /\ attempt_idx = 0
    /\ final_report = NoReport
    /\ final_workflow = NoneWorkflow
    /\ completed_normally = FALSE
    /\ events = <<>>
    /\ log = <<>>
    /\ http_clients = <<>>
    /\ connector_file \in ConnectorFiles
    /\ RegistryOff
    /\ CommandOff
    /\ LayersOff
    /\ TwinOff

NextValidate == ValidateFile

SpecValidate == InitValidate /\ [][NextValidate]_vars

-----------------------------------------------------------------------------
(* run_command: _run_command_sync, its two reader threads and the command *)

COMMAND_TIMEOUT == 30
MAX_OUTPUT_BYTES == 50000
READ_SIZE == 4096

\* proc.wait(timeout=1) in _kill_pg
KILL_WAIT == 1

\* t_out.join(timeout=2), t_err.join(timeout=2) after _close_pipes
JOIN_WAIT == 2

\* the seconds the model lets pass after the timeout
MaxOvertime == 7

\* the most a command writes to one stream
MaxWritten == 30000

Min(a, b) == IF a < b THEN a ELSE b
Max(a, b) == IF a > b THEN a ELSE b

\* timeout = max(1, min(int(params.get("timeout", COMMAND_TIMEOUT)), COMMAND_TIMEOUT))
ClampTimeout(param) == Max(1, Min(param, COMMAND_TIMEOUT))

\* the "timeout" parameters the tool is called with
TimeoutParams == {0, 2, 45}

\* half = MAX_OUTPUT_BYTES // 2
half == MAX_OUTPUT_BYTES \div 2

Readers == {"out", "err"}

\* some process of the group holds the write end of the pipe
PipeOpen(t) == (proc.leader = "running" /\ proc.holds[t]) \/ proc.children

\* some process of the group is alive
GroupAlive == proc.leader = "running" \/ proc.children

CmdRest ==
    /\ UNCHANGED exec_vars
    /\ UNCHANGED plan_vars
    /\ UNCHANGED <<http_clients, connector_file, reg_vars, layer_vars, twin_vars>>

\* mutant: _kill_pg without `with wait_lock:`
AcquireUnlocked(t) == TRUE

\* `with wait_lock:` can be entered
Acquire(t) == wait_lock = "free"

\* the thread leaves _kill_pg; the caller goes on to _close_pipes, a reader
\* returns from _read_capped
AfterKill(t) == IF t = "main" THEN "close" ELSE "done"

\* os.killpg(proc.pid, sig) by thread t
Killpg(t, sig) == [sig |-> sig, by |-> t, leader |-> proc.leader, at |-> now]

\* _kill_pg up to proc.wait(timeout=1): the lock is taken; if poll() finds
\* the child gone (reaping it) the function returns; else SIGTERM goes to the
\* group, which ends every process of it that does not trap the signal
KillEnter(t) ==
    /\ th[t] = "kill"
    /\ Acquire(t)
    /\ IF proc.leader # "running"
       THEN /\ proc' = [proc EXCEPT !.leader = "reaped"]
            /\ th' = [th EXCEPT ![t] = AfterKill(t)]
            /\ UNCHANGED <<wait_lock, signals, deadline>>
       ELSE /\ signals' = Append(signals, Killpg(t, "SIGTERM"))
            /\ proc' = IF proc.traps THEN proc
                       ELSE [proc EXCEPT !.leader = "zombie", !.children = FALSE]
            /\ wait_lock' = t
            /\ th' = [th EXCEPT ![t] = "kill_wait"]
            /\ deadline' = [deadline EXCEPT ![t] = now + KILL_WAIT]
    /\ UNCHANGED <<total, pipes_closed, now, cmd_result>>
    /\ CmdRest

\* can proc.wait(timeout=1) return or give up
KillWaitReady(t) == proc.leader # "running" \/ now >= deadline[t]

\* _kill_pg from proc.wait(timeout=1) on: the child is reaped, after SIGKILL
\* to the group if it is still running one second after SIGTERM
KillLeave(t) ==
    /\ th[t] = "kill_wait"
    /\ KillWaitReady(t)
    /\ IF proc.leader # "running"
       THEN /\ proc' = [proc EXCEPT !.leader = "reaped"]
            /\ UNCHANGED signals
       ELSE /\ signals' = Append(signals, Killpg(t, "SIGKILL"))
            /\ proc' = [proc EXCEPT !.leader = "reaped", !.children = FALSE]
    /\ wait_lock' = "free"
    /\ th' = [th EXCEPT ![t] = AfterKill(t)]
    /\ UNCHANGED <<total, pipes_closed, now, deadline, cmd_result>>
    /\ CmdRest

\* min(4096, budget - total)
Want(t) == Min(READ_SIZE, half - total[t])

\* can stream.read(n) return: the stream was closed under the reader (it
\* raises), the bytes are there, or every write end is closed
ReadReady(t) ==
    \/ pipes_closed
    \/ proc.written[t] - total[t] >= Want(t)
    \/ ~PipeOpen(t)

\* one iteration of the loop of _read_capped, and what follows the loop
ReadChunk(t) ==
    /\ th[t] = "read"
    /\ ReadReady(t)
    /\ IF pipes_closed
       THEN /\ th' = [th EXCEPT ![t] = "done"]
            /\ UNCHANGED total
       ELSE LET chunk == Min(Want(t), proc.written[t] - total[t])
            IN  /\ total' = [total EXCEPT ![t] = @ + chunk]
                /\ th' = [th EXCEPT ![t] =
                             IF chunk = 0 THEN "done"
                             ELSE IF total[t] + chunk >= half THEN "kill"
                             ELSE "read"]
    /\ UNCHANGED <<proc, wait_lock, pipes_closed, now, deadline, signals, cmd_result>>
    /\ CmdRest

ReaderCanRun(t) ==
    \/ th[t] = "read" /\ ReadReady(t)
    \/ th[t] = "kill" /\ Acquire(t)
    \/ th[t] = "kill_wait" /\ KillWaitReady(t)

\* the thread t_out
StdoutThread ==
    \/ ReadChunk("out")
    \/ KillEnter("out")
    \/ KillLeave("out")

\* the thread t_err
StderrThread ==
    \/ ReadChunk("err")
    \/ KillEnter("err")
    \/ KillLeave("err")

\* t_out.join(timeout=timeout)
JoinOutReady == th["out"] = "done" \/ now >= proc.timeout

MainJoinOut ==
    /\ th["main"] = "join_out"
    /\ JoinOutReady
    /\ th' = [th EXCEPT !["main"] = "join_err"]
    /\ UNCHANGED <<proc, wait_lock, total, pipes_closed, now, deadline, signals,
                   cmd_result>>
    /\ CmdRest

\* remaining = max(0, timeout - elapsed); t_err.join(timeout=remaining)
JoinErrReady == th["err"] = "done" \/ now >= proc.timeout

\* ... and `if t_out.is_alive() or t_err.is_alive():`
MainJoinErr ==
    /\ th["main"] = "join_err"
    /\ JoinErrReady
    /\ th' = [th EXCEPT !["main"] =
                 IF th["out"] # "done" \/ th["err"] # "done" THEN "kill" ELSE "wait"]
    /\ UNCHANGED <<proc, wait_lock, total, pipes_closed, now, deadline, signals,
                   cmd_result>>
    /\ CmdRest

\* the timeout branch: _kill_pg()
MainKill ==
    \/ KillEnter("main")
    \/ KillLeave("main")

\* ... _close_pipes(): a reader blocked in read() finds its stream closed
MainClosePipes ==
    /\ th["main"] = "close"
    /\ pipes_closed' = TRUE
    /\ th' = [th EXCEPT !["main"] = "join_out_2"]
    /\ deadline' = [deadline EXCEPT !["main"] = now + JOIN_WAIT]
    /\ UNCHANGED <<proc, wait_lock, total, now, signals, cmd_result>>
    /\ CmdRest

Join2Ready(t) == th[t] = "done" \/ now >= deadline["main"]

\* ... t_out.join(timeout=2); t_err.join(timeout=2); return b"", b"", -1, False, True
MainJoinAfterClose ==
    /\ \/ /\ th["main"] = "join_out_2"
          /\ Join2Ready("out")
          /\ th' = [th EXCEPT !["main"] = "join_err_2"]
          /\ deadline' = [deadline EXCEPT !["main"] = now + JOIN_WAIT]
          /\ UNCHANGED cmd_result
       \/ /\ th["main"] = "join_err_2"
          /\ Join2Ready("err")
          /\ th' = [th EXCEPT !["main"] = "returned"]
          /\ cmd_result' = [returned |-> TRUE, stdout |-> 0, stderr |-> 0,
                            was_truncated |-> FALSE, timed_out |-> TRUE]
          /\ UNCHANGED deadline
    /\ UNCHANGED <<proc, wait_lock, total, pipes_closed, now, signals>>
    /\ CmdRest

\* can `with wait_lock: proc.wait()` finish
WaitReady == wait_lock = "free" /\ proc.leader # "running"

\* both readers ended in time: `with wait_lock: proc.wait()`, the results
\* of the readers are returned, and `finally: _close_pipes()`
MainWait ==
    /\ th["main"] = "wait"
    /\ WaitReady
    /\ proc' = [proc EXCEPT !.leader = "reaped"]
    /\ th' = [th EXCEPT !["main"] = "returned"]
    /\ pipes_closed' = TRUE
    /\ cmd_result' = [returned |-> TRUE, stdout |-> total["out"],
                      stderr |-> total["err"],
                      was_truncated |-> total["out"] >= half \/ total["err"] >= half,
                      timed_out |-> FALSE]
    /\ UNCHANGED <<wait_lock, total, now, deadline, signals>>
    /\ CmdRest

MainCanRun ==
    \/ th["main"] = "join_out" /\ JoinOutReady
    \/ th["main"] = "join_err" /\ JoinErrReady
    \/ th["main"] = "kill" /\ Acquire("main")
    \/ th["main"] = "kill_wait" /\ KillWaitReady("main")
    \/ th["main"] = "close"
    \/ th["main"] = "join_out_2" /\ Join2Ready("out")
    \/ th["main"] = "join_err_2" /\ Join2Ready("err")
    \/ th["main"] = "wait" /\ WaitReady

Running == th["main"] \notin {"idle", "returned"}

\* the command writes to a stream
ProcWrite ==
    /\ Running
    /\ \E t \in Readers, n \in {5000, 25000} :
          /\ PipeOpen(t)
          /\ proc.written[t] + n <= MaxWritten
          /\ t = "err" => n = 25000
          /\ proc' = [proc EXCEPT !.written[t] = @ + n]
    /\ UNCHANGED <<th, wait_lock, total, pipes_closed, now, deadline, signals,
                   cmd_result>>
    /\ CmdRest

\* the command closes its stdout or its stderr and runs on
ProcCloseStream ==
    /\ Running
    /\ proc.leader = "running"
    /\ \E t \in Readers :
          /\ proc.holds[t]
          /\ proc' = [proc EXCEPT !.holds[t] = FALSE]
    /\ UNCHANGED <<th, wait_lock, total, pipes_closed, now, deadline, signals,
                   cmd_result>>
    /\ CmdRest

\* the command (the shell Popen started) exits; what it left running in the
\* background runs on
ProcExit ==
    /\ Running
    /\ proc.leader = "running"
    /\ proc' = [proc EXCEPT !.leader = "zombie"]
    /\ UNCHANGED <<th, wait_lock, total, pipes_closed, now, deadline, signals,
                   cmd_result>>
    /\ CmdRest

\* a second passes: every thread of the call is blocked
Tick ==
    /\ Running
    /\ ~MainCanRun /\ ~ReaderCanRun("out") /\ ~ReaderCanRun("err")
    /\ now < proc.timeout + MaxOvertime
    /\ now' = now + 1
    /\ UNCHANGED <<proc, th, wait_lock, total, pipes_closed, deadline, signals,
                   cmd_result>>
    /\ CmdRest

\* run_command_execute called _run_command_sync(command, timeout): Popen has
\* started the command in a session of its own and both readers are started
InitCommand ==
    /\ ExecutorIdle
    /\ variant = "none"
    /\ run_agent = [m \in {"pipeline", "workflow_agent", "builder"} |-> "base"]
    /\ settings = Settings("simulator", {})
    /\ workflow_store = [supplied |-> FALSE, files |-> <<>>]
    /\ custom_connectors = {}
    /\ workspace = TRUE
    /\ workflow_file = Absent
    /\ ppc = "run_command"
    /\ attempt_idx = 0
    /\ final_report = NoReport
    /\ final_workflow = NoneWorkflow
    /\ completed_normally = FALSE
    /\ events = <<>>
    /\ log = <<>>
    /\ http_clients = <<>>
    /\ connector_file = [exists |-> FALSE]
    /\ RegistryOff
    /\ \E param \in TimeoutParams, traps \in BOOLEAN, children \in BOOLEAN :
          proc = [leader |-> "running", holds |-> [t \in Readers |-> TRUE],
                  children |-> children, traps |-> traps,
                  written |-> [t \in Readers |-> 0],
                  timeout |-> ClampTimeout(param)]
    /\ th = [t \in {"main", "out", "err"} |-> IF t = "main" THEN "join_out" ELSE "read"]
    /\ wait_lock = "free"
    /\ total = [t \in Readers |-> 0]
    /\ pipes_closed = FALSE
    /\ now = 0
    /\ deadline = [t \in {"main", "out", "err"} |-> 0]
    /\ signals = <<>>
    /\ cmd_result = NoCmdResult
    /\ LayersOff
    /\ TwinOff

NextCommand ==
    \/ StdoutThread \/ StderrThread
    \/ MainJoinOut \/ MainJoinErr \/ MainKill \/ MainClosePipes
    \/ MainJoinAfterClose \/ MainWait
    \/ ProcWrite \/ ProcCloseStream \/ ProcExit \/ Tick

SpecCommand == InitCommand /\ [][NextCommand]_vars

-----------------------------------------------------------------------------
(* the objects of a service layer: create_simulator and create_service_layer *)
(* by the identity of what they construct                                     *)

\* the layers the model lets the runs assemble in all
MaxLayers == 4

\* an object just constructed; written_by collects the layers whose services
\* have put something into it
Object(kind) == [kind |-> kind, written_by |-> {}]

\* mutant: the state and the trace kept at module level and handed to every
\* caller
create_simulator_shared(h) ==
    IF \E o \in 1..Len(h) : h[o].kind = "SimulatorState"
    THEN [heap |-> h,
          state |-> CHOOSE o \in 1..Len(h) : h[o].kind = "SimulatorState",
          trace |-> CHOOSE o \in 1..Len(h) : h[o].kind = "ExecutionTrace"]
    ELSE [heap |-> h \o <<Object("SimulatorState"), Object("ExecutionTrace")>>,
          state |-> Len(h) + 1, trace |-> Len(h) + 2]

\* state = SimulatorState(); trace = ExecutionTrace(): two objects that were
\* not on the heap before (every field default is copied per instance)
create_simulator(h) ==
    [heap |-> h \o <<Object("SimulatorState"), Object("ExecutionTrace")>>,
     state |-> Len(h) + 1, trace |-> Len(h) + 2]

\* create_service_layer by its objects: those of create_simulator and, unless
\* the mode is "simulator", an httpx.AsyncClient and a ConnectorRegistry with
\* its _cache, which registry.get fills for layer l while the map is built
ServiceLayerObjects(h, stg, l) ==
    LET sim == create_simulator(h)
    IN  IF stg.connector_mode = "simulator"
        THEN [heap |-> sim.heap, state |-> sim.state, trace |-> sim.trace,
              http |-> 0, cache |-> 0]
        ELSE [heap |-> sim.heap \o
                         <<Object("AsyncClient"),
                           [kind |-> "ConnectorCache", written_by |-> {l}]>>,
              state |-> sim.state, trace |-> sim.trace,
              http |-> Len(sim.heap) + 1, cache |-> Len(sim.heap) + 2]

LayerRest ==
    /\ UNCHANGED exec_vars
    /\ UNCHANGED plan_vars
    /\ UNCHANGED <<http_clients, connector_file, reg_vars, cmd_vars, twin_vars>>

\* a run assembles the layer of its next attempt (pipeline.py 275, and 293
\* after connectors were built); the layer it had is dropped
LayerAssemble ==
    /\ ppc = "layers"
    /\ Len(layers) < MaxLayers
    /\ \E r \in Runs :
          LET l == Len(layers) + 1
              made == ServiceLayerObjects(heap, settings, l)
          IN  /\ heap' = made.heap
              /\ layers' = Append(layers, [run |-> r, state |-> made.state,
                                           trace |-> made.trace, http |-> made.http,
                                           cache |-> made.cache])
              /\ run_layer' = [run_layer EXCEPT ![r] = l]
    /\ LayerRest

\* the objects a call of a service of layer L puts something into: a simulator
\* service mutates the state and appends a TraceStep, a connector sends a
\* request through the client and appends a TraceStep
Touched(L, via) ==
    IF via = "simulator" THEN {L.state, L.trace} ELSE {L.trace, L.http}

\* the executor of a run calls a service of its layer
LayerCall ==
    /\ ppc = "layers"
    /\ \E r \in Runs, via \in {"simulator", "connector"} :
          /\ run_layer[r] # 0
          /\ via = "connector" => layers[run_layer[r]].http # 0
          /\ heap' = [o \in 1..Len(heap) |->
                         IF o \in Touched(layers[run_layer[r]], via)
                         THEN [heap[o] EXCEPT !.written_by = @ \cup {run_layer[r]}]
                         ELSE heap[o]]
    /\ UNCHANGED <<layers, run_layer>>
    /\ LayerRest

\* a run ends; its layer is dropped with it
LayerDiscard ==
    /\ ppc = "layers"
    /\ \E r \in Runs :
          /\ run_layer[r] # 0
          /\ run_layer' = [run_layer EXCEPT ![r] = 0]
    /\ UNCHANGED <<heap, layers>>
    /\ LayerRest

InitLayers ==
    /\ ExecutorIdle
    /\ variant = "none"
    /\ run_agent = [m \in {"pipeline", "workflow_agent", "builder"} |-> "base"]
    /\ settings \in {Settings("simulator", {}), Settings("hybrid", {})}
    /\ workflow_store = [supplied |-> FALSE, files |-> <<>>]
    /\ custom_connectors = {}
    /\ workspace = FALSE
    /\ workflow_file = Absent
    /\ ppc = "layers"
    /\ attempt_idx = 0
    /\ final_report = NoReport
    /\ final_workflow = NoneWorkflow
    /\ completed_normally = FALSE
    /\ events = <<>>
    /\ log = <<>>
    /\ SideOff

NextLayers == LayerAssemble \/ LayerCall \/ LayerDiscard

SpecLayers == InitLayers /\ [][NextLayers]_vars

-----------------------------------------------------------------------------
(* workflow/schema.py: Workflow.model_validate on the workflow.json read by *)
(* the parse step                                                           *)

\* the most entries the edges list of a document holds
MaxDocEdges == 2

\* workflow.json by what validation looks at: are the keys without default
\* there with values of their types (complete), the depends_on lists of its
\* three nodes (deps, as <<dep, node>> pairs), and the edges list, which the
\* document may leave out
SchemaDocs ==
    [complete : BOOLEAN,
     deps : EdgeSets,
     has_edges : BOOLEAN,
     edges : {E \in SUBSET EdgePairs : Cardinality(E) <= MaxDocEdges}]

\* Workflow.model_validate(workflow_data): the fields of Workflow,
\* WorkflowNode and WorkflowEdge are checked for presence and type;
\* `edges: list[WorkflowEdge] = []` is a field of its own
model_validate(doc) ==
    IF ~doc.complete THEN [accepted |-> FALSE, deps |-> {}, edges |-> {}]
    ELSE [accepted |-> TRUE, deps |-> doc.deps,
          edges |-> IF doc.has_edges THEN doc.edges ELSE {}]

\* workflow_data = json.loads(workflow_file.read_text());
\* workflow = Workflow.model_validate(workflow_data)
SchemaParse ==
    /\ ppc = "schema"
    /\ ppc' = "parsed"
    /\ log' = <<[op |-> "model_validate", v |-> model_validate(workflow_file.wf)]>>
    /\ UNCHANGED exec_vars
    /\ UNCHANGED <<variant, run_agent, settings, workflow_store, custom_connectors,
                   workspace, workflow_file, attempt_idx, final_report,
                   final_workflow, completed_normally, events>>
    /\ UNCHANGED side_vars

InitSchema ==
    /\ ExecutorIdle
    /\ variant = "none"
    /\ run_agent = [m \in {"pipeline", "workflow_agent", "builder"} |-> "base"]
    /\ settings = Settings("simulator", {})
    /\ workflow_store = [supplied |-> FALSE, files |-> <<>>]
    /\ custom_connectors = {}
    /\ workspace = TRUE
    /\ \E doc \in SchemaDocs : workflow_file = [kind |-> "json", wf |-> doc]
    /\ ppc = "schema"
    /\ attempt_idx = 0
    /\ final_report = NoReport
    /\ final_workflow = NoneWorkflow
    /\ completed_normally = FALSE
    /\ events = <<>>
    /\ log = <<>>
    /\ SideOff

NextSchema == SchemaParse

SpecSchema == InitSchema /\ [][NextSchema]_vars

-----------------------------------------------------------------------------
(* two executions of one workflow, each on a fresh simulator *)

\* the entropy of the second execution
Entropies == {0, 100}

\* what the claims compare of an execution that has ended
RunSummary ==
    [done |-> TRUE, order |-> order,
     steps |-> [i \in 1..Len(trace) |-> <<trace[i].node_id, trace[i].status>>],
     counts |-> <<report.successful, report.failed, report.skipped>>,
     injected |-> {failures[i].node_id :
                     i \in {j \in 1..Len(failures) : failures[j].exc = "injected"}},
     raised |-> raised, returned |-> report.returned]

\* the first execution has ended; a new simulator and a new executor are
\* made for the same workflow and the same failure configuration
TwinRestart ==
    /\ ppc = "twin"
    /\ pc \in {"done", "raised"}
    /\ ~first_run.done
    /\ first_run' = RunSummary
    /\ entropy' \in Entropies
    /\ ExecutorCreate(workflow, services, failure_config)
    /\ UNCHANGED plan_vars
    /\ UNCHANGED <<http_clients, connector_file, reg_vars, cmd_vars, layer_vars>>

\* the workflows executed twice: those with the global parameters set
TwinWorkflows == {wf \in Workflows : wf.parameters # <<>>}

InitTwin ==
    /\ \E wf \in TwinWorkflows, fc \in FailureConfigs :
          ExecutorInit(wf, SimServices, fc)
    /\ variant = "none"
    /\ run_agent = [m \in {"pipeline", "workflow_agent", "builder"} |-> "base"]
    /\ settings = Settings("simulator", {})
    /\ workflow_store = [supplied |-> FALSE, files |-> <<>>]
    /\ custom_connectors = {}
    /\ workspace = FALSE
    /\ workflow_file = Absent
    /\ ppc = "twin"
    /\ attempt_idx = 0
    /\ final_report = NoReport
    /\ final_workflow = NoneWorkflow
    /\ completed_normally = FALSE
    /\ events = <<>>
    /\ log = <<>>
    /\ SideOff

NextTwin == ExecStart \/ ExecNode \/ ExecFinish \/ TwinRestart

SpecTwin == InitTwin /\ [][NextTwin]_vars

-----------------------------------------------------------------------------
(* Vocabulary of the properties *)

\* the depends_on entries of the node named id
DepsOf(id) ==
    {node_map(workflow, id).depends_on[i] :
        i \in 1..Len(node_map(workflow, id).depends_on)}

\* the transitive dependencies of id: what is reachable along depends_on
RECURSIVE ReachDeps(_, _)
ReachDeps(frontier, seen) ==
    LET next == (UNION {DepsOf(x) : x \in frontier \cap IdSet(workflow)}) \ seen
    IN  IF next = {} THEN seen ELSE ReachDeps(next, seen \cup next)

Ancestors(id) == ReachDeps({id}, {})

HasCycle == \E id \in IdSet(workflow) : id \in Ancestors(id)

StepsOf(id) == {i \in 1..Len(trace) : trace[i].node_id = id}
HasStatus(id, status) == \E i \in StepsOf(id) : trace[i].status = status
Called(id) == \E i \in 1..Len(calls) : calls[i].node_id = id

\* the position of id in the dispatch order, and whether the loop is past it
OrderIndex(id) == CHOOSE i \in 1..Len(order) : order[i] = id
Processed(id) ==
    /\ pc \in {"loop", "done"}
    /\ \E i \in 1..Len(order) : order[i] = id /\ i < pos

-----------------------------------------------------------------------------
(* C1 - C8: properties of one execution *)

\* C1: in the trace of an execution against the simulator, the step of a node
\* comes after the step of every node listed in its depends_on.
C1_TraceFollowsDependencies ==
    \A i \in 1..Len(trace), j \in 1..Len(trace) :
        trace[i].node_id \in DepsOf(trace[j].node_id) => i < j

C1_Witness ==
    /\ pc = "done"
    /\ Len(trace) = Len(NodeSeq)
    /\ \E i \in 1..Len(trace), j \in 1..Len(trace) :
          /\ trace[i].node_id \in DepsOf(trace[j].node_id)
          /\ trace[i].status = "success" /\ trace[j].status = "success"
    \* the dispatch order differs from the order of workflow.nodes
    /\ order # all_ids(workflow)

\* C2: a node is recorded skipped exactly when one of its transitive
\* dependencies is recorded failed; a skipped node is never called and has no
\* recorded output; a finished execution has recorded every node.
C2_SkippedIffUpstreamFailed ==
    /\ \A i \in 1..Len(trace) :
          LET id == trace[i].node_id
          IN  /\ (trace[i].status = "skipped")
                    <=> (\E d \in Ancestors(id) : HasStatus(d, "failed"))
              /\ trace[i].status = "skipped"
                    => ~Called(id) /\ ~Has(node_outputs, id)
    /\ pc = "done" => \A id \in IdSet(workflow) : StepsOf(id) # {}

\* a chain: the first node failed, the second is skipped, and so is the third,
\* whose only dependency is the skipped one
C2_Witness ==
    /\ pc = "done"
    /\ \E x, y, z \in IdSet(workflow) :
          /\ HasStatus(x, "failed")
          /\ DepsOf(y) = {x} /\ HasStatus(y, "skipped")
          /\ DepsOf(z) = {y} /\ HasStatus(z, "skipped")

\* C3: every report returned has total_steps = successful + failed + skipped
\* = the number of nodes of the workflow.
C3_ReportCounts ==
    report.returned =>
        /\ report.total_steps = report.successful + report.failed + report.skipped
        /\ report.total_steps = Len(workflow.nodes)

C3_Witness ==
    /\ report.returned
    /\ report.successful = 1 /\ report.failed = 1 /\ report.skipped = 1

\* C4: for a workflow whose depends_on relation has a cycle, execute raises the
\* cycle error before anything is dispatched: no trace step, no call, no
\* recorded output, SimulatorState as created.
C4_CycleRejectedBeforeDispatch ==
    HasCycle =>
        /\ pc \in {"start", "raised"}
        /\ pc = "raised" => raised = "ValueError"
        /\ trace = <<>>
        /\ calls = <<>>
        /\ node_outputs = <<>>
        /\ state = SimulatorState

\* the error is raised for a workflow that also has a node outside the cycle,
\* without dependencies, that could have run
C4_Witness ==
    /\ pc = "raised"
    /\ HasCycle
    /\ \E id \in IdSet(workflow) :
          /\ DepsOf(id) = {}
          /\ \A x \in IdSet(workflow) : id \notin DepsOf(x)
          /\ node_map(workflow, id).service = "hr"
          /\ node_map(workflow, id).action = "create_employee"

\* the rule of probability 1.0 that covers node id, if any
CertainRule(id) ==
    LET key == node_map(workflow, id).service \o "." \o node_map(workflow, id).action
    IN  /\ failure_config.some
        /\ key \in DOMAIN failure_config.rules
        /\ failure_config.rules[key].probability = 100

InjectedError(id) ==
    LET key == node_map(workflow, id).service \o "." \o node_map(workflow, id).action
        rule == failure_config.rules[key]
    IN  S("[" \o rule.error_type \o "] " \o rule.message)

\* C5: a node that is not skipped and whose service.action has a rule of
\* probability 1.0 is recorded failed with the error "[error_type] message",
\* its action is not called, it records no output, and the loop goes on.
C5_CertainFailureInjected ==
    \A id \in IdSet(workflow) :
        Processed(id) /\ CertainRule(id) /\ id \notin skipped_nodes =>
            /\ \E i \in StepsOf(id) :
                  trace[i].status = "failed" /\ trace[i].error = InjectedError(id)
            /\ \A i \in StepsOf(id) : trace[i].status = "failed"
            /\ ~Called(id)
            /\ ~Has(node_outputs, id)
            /\ id \in failed_nodes

\* the injected failure hit a node whose action would have succeeded (its HR
\* record exists), and the execution went on to the end
C5_Witness ==
    /\ pc = "done"
    /\ \E id \in IdSet(workflow) :
          /\ CertainRule(id)
          /\ HasStatus(id, "failed")
          /\ state.employees # <<>>
          /\ state.google_accounts = <<>>
          /\ order[Len(order)] # id

\* the text a template stands for when every template of the string is
\* replaced at once: the global parameter of that name, else the recorded
\* output key, else the template itself
TemplateText(tok, globals, outs) ==
    IF ~tok.tm THEN <<tok>>
    ELSE IF Has(globals, tok.x) THEN PyStr(Lookup(globals, tok.x))
    ELSE IF \E i \in 1..Len(outs) : \E j \in 1..Len(outs[i].v.out) :
               tok.x = outs[i].k \o "." \o outs[i].v.out[j].k
    THEN LET i == CHOOSE i \in 1..Len(outs) : \E j \in 1..Len(outs[i].v.out) :
                     tok.x = outs[i].k \o "." \o outs[i].v.out[j].k
             j == CHOOSE j \in 1..Len(outs[i].v.out) :
                     tok.x = outs[i].k \o "." \o outs[i].v.out[j].k
         IN  PyStr(outs[i].v.out[j].v)
    ELSE <<tok>>

RECURSIVE OnePass(_, _, _)
OnePass(str, globals, outs) ==
    IF str = <<>> THEN <<>>
    ELSE TemplateText(Head(str), globals, outs) \o OnePass(Tail(str), globals, outs)

Expected(value, globals, outs) ==
    IF IsStr(value) THEN StrV(OnePass(value.t, globals, outs)) ELSE value

\* C6: the parameters an action is called with are the node's parameters with
\* each {{name}} replaced by the global parameter, each {{u.k}} replaced by
\* str of the output k recorded for u before the call, every other template
\* and every non-string value unchanged.
C6_ParametersResolved ==
    \A c \in 1..Len(calls) :
        LET node == node_map(workflow, calls[c].node_id)
        IN  /\ DOMAIN calls[c].params = {node.parameters[i].name :
                                          i \in 1..Len(node.parameters)}
            /\ \A i \in 1..Len(node.parameters) :
                  calls[c].params[node.parameters[i].name] =
                      Expected(node.parameters[i].value, workflow.parameters,
                               calls[c].outs)

\* one call was made with an upstream output substituted, another with a
\* global parameter substituted, a template without match left as it is and a
\* non-string value
C6_Witness ==
    /\ \E c \in 1..Len(calls) :
          /\ calls[c].action = "invite_user"
          /\ calls[c].params["email"] = StrV(S("alice.chen@company.com"))
    /\ \E c \in 1..Len(calls) :
          /\ calls[c].action = "create_employee"
          /\ calls[c].params["employee_name"] = StrV(S("Alice Chen"))
          /\ calls[c].params["role"] = StrV(T("role"))
          /\ calls[c].params["department"] = NumV(7)

\* C7: an action that is a coroutine function is run to completion before the
\* next node is dispatched and its returned dict is the node's output, so that
\* an execution against connectors goes as against synchronous actions: no
\* call is left as a coroutine object that never ran, no recorded output is
\* one, every node counted successful has its success step in the trace, and
\* nothing but the cycle error leaves execute.
C7_ConnectorActionsRunToCompletion ==
    /\ \A i \in 1..Len(calls) : ~calls[i].coro
    /\ \A i \in 1..Len(node_outputs) : ~node_outputs[i].v.coro
    /\ report.returned =>
          report.successful =
              Cardinality({i \in 1..Len(report.trace) : report.trace[i].status = "success"})
    /\ pc = "raised" => raised = "ValueError"

\* the entry of dependency_violations for node id: f"{node_id}: {e}"
ViolationEntries(id) ==
    {i \in 1..Len(report.dependency_violations) :
        \E k \in StepsOf(id) :
            report.dependency_violations[i] = Norm(S(id \o ": ") \o trace[k].error)}

FailedWith(id, error_type) ==
    \E i \in 1..Len(failures) :
        failures[i].node_id = id /\ failures[i].exc = "ServiceError"
            /\ failures[i].error_type = error_type

\* C8: the report's dependency_violations holds one entry for each node that
\* failed with precondition_failed and none for any other failure.
C8_ViolationsArePreconditionFailures ==
    report.returned =>
        /\ Len(report.dependency_violations) =
              Cardinality({id \in IdSet(workflow) : FailedWith(id, "precondition_failed")})
        /\ \A id \in IdSet(workflow) :
              Cardinality(ViolationEntries(id)) =
                  IF FailedWith(id, "precondition_failed") THEN 1 ELSE 0

-----------------------------------------------------------------------------
(* C9, C10: properties of one run of generate_workflow *)

\* generate_workflow has returned, an exception has left it, or the consumer
\* has closed it
Terminated == ppc \in {"returned", "raised", "closed"}

\* the entries of the history with operation op
Entries(op) == {i \in 1..Len(log) : log[i].op = op}

\* the attempt numbers of the execution_report events, in the order yielded
ReportAttempts ==
    LET reports == SelectSeq(events, LAMBDA ev : ev.type = "execution_report")
    IN  [i \in 1..Len(reports) |-> reports[i].attempt]

\* the steps one pass of the loop takes at most: parse, the start of execute,
\* one step per node, the end of execute, the report
PassSteps == Len(NodeSeq) + 4

\* the steps taken inside the current pass
PassProgress ==
    CASE ppc = "parse" -> 0
      [] ppc = "execute" /\ pc = "start" -> 1
      [] ppc = "execute" /\ pc = "loop" -> 1 + pos
      [] OTHER -> PassSteps - 1

\* an upper bound of the steps generate_workflow can still take
Rank ==
    CASE Terminated -> 0
      [] ppc = "finish" -> 1
      [] ppc = "draft" -> 2 + (MAX_FIX_ATTEMPTS + 1) * PassSteps
      [] OTHER -> 1 + (MAX_FIX_ATTEMPTS + 1 - attempt_idx) * PassSteps - PassProgress

\* a run that has not ended is at a statement that can be executed
CanStep ==
    \/ ppc \in {"draft", "parse", "finish"}
    \/ ppc = "execute" /\ pc \in {"start", "loop", "done", "raised"}

C9_Bounds ==
    /\ MAX_FIX_ATTEMPTS + 1 = 3
    /\ Cardinality(Entries("execute")) <= MAX_FIX_ATTEMPTS + 1
    /\ Cardinality(Entries("agent")) <= MAX_FIX_ATTEMPTS + 1
    /\ Cardinality({i \in Entries("agent") : log[i].purpose = "draft"}) <= 1
    /\ Cardinality({i \in Entries("agent") : log[i].purpose # "draft"})
          <= MAX_FIX_ATTEMPTS
    /\ \A i \in 1..Len(ReportAttempts) :
          /\ ReportAttempts[i] \in 1..(MAX_FIX_ATTEMPTS + 1)
          /\ i > 1 => ReportAttempts[i - 1] < ReportAttempts[i]

\* C9: a run of generate_workflow (either variant) executes the workflow at
\* most MAX_FIX_ATTEMPTS + 1 = 3 times and runs the agent at most 3 times, the
\* draft and at most two repairs of either kind; the execution_report events
\* carry strictly increasing attempt numbers within 1..3; and the run
\* terminates: it is never stuck before its end, and every step lowers a
\* bound of the steps that remain.
C9_BoundedRun ==
    /\ [](C9_Bounds /\ (Terminated \/ CanStep) /\ Rank >= 0)
    /\ [][Rank' < Rank]_vars

\* a finished run that used everything: three executions, three agent runs,
\* reports of the attempts 1, 2 and 3
C9_Witness ==
    /\ Terminated
    /\ Cardinality(Entries("execute")) = 3
    /\ Cardinality(Entries("agent")) = 3
    /\ ReportAttempts = <<1, 2, 3>>

\* the first parse after position i of the history, 0 if there is none
NextParse(i) ==
    IF \E j \in Entries("parse") : j > i
    THEN CHOOSE j \in Entries("parse") :
            j > i /\ \A k \in Entries("parse") : k > i => j <= k
    ELSE 0

\* C10: nothing follows a report without failures: no agent run, no parse, no
\* execution.  After a report with failures, a next parse comes only while
\* attempts remain, and between the report and that parse lies exactly one
\* agent run, the repair that carries the rendered report.
C10_StopsAtFirstCleanReport ==
    \A i \in Entries("report") :
        IF log[i].failed = 0
        THEN i = Len(log)
        ELSE LET j == NextParse(i)
             IN  j # 0 =>
                    /\ log[i].attempt <= MAX_FIX_ATTEMPTS
                    /\ j = i + 2
                    /\ log[i + 1] = AgentRun("fix_execution", log[i].attempt,
                                              log[i].markdown)
                    /\ log[i].markdown.failed > 0

\* a run whose first report had failures, was repaired once, and ended with a
\* second report without failures
C10_Witness ==
    /\ Terminated
    /\ \E i \in Entries("report") :
          /\ log[i].failed > 0
          /\ log[i].attempt = 1
          /\ i + 2 <= Len(log)
          /\ log[i + 1].purpose = "fix_execution"
          /\ log[i + 2].op = "parse"
    /\ log # <<>>
    /\ log[Len(log)].op = "report"
    /\ log[Len(log)].failed = 0
    /\ log[Len(log)].attempt = 2

-----------------------------------------------------------------------------
(* C11..C14: what a run of generate_workflow leaves behind *)

\* the execution_report events of the run, in the order yielded
ReportEvents == SelectSeq(events, LAMBDA ev : ev.type = "execution_report")

\* the run has yielded an event of this type
Yielded(type) == \E i \in 1..Len(events) : events[i].type = type

\* the most recent execution report of the run has no failures
LatestReportClean ==
    /\ ReportEvents # <<>>
    /\ ReportEvents[Len(ReportEvents)].report.failed = 0

C12_WorkspaceRemovedOnExit == Terminated => ~workspace

\* C13: a run whose parsed workflow has a dependency cycle ends normally
\* (generate_workflow returns, no exception reaches the caller) and its stream
\* carries an error event for the failure.
C13_CycleAbortsWithErrorEvent ==
    Terminated /\ HasCycle =>
        /\ ppc = "returned"
        /\ events # <<>>
        /\ \E i \in 1..Len(events) :
              /\ events[i].type = "error"
              /\ \E j \in 1..i : events[j].type = "workflow"

\* the step of the drafting agent session: the session streamed its messages
\* to the end, and there is no workflow.json in the workspace after it
DraftLeavesNoFile ==
    /\ ppc = "draft"
    /\ Entries("agent")' # {}
    /\ Yielded("result")'
    /\ workflow_file'.kind = "absent"

\* C14: the step in which the drafting session ends without a workflow.json
\* yields an error event and ends the run by a return: no workflow event and
\* no execution_report has been yielded, no repair agent has run, no executor
\* was created, the store is untouched; and a run that has returned takes no
\* further step.
C14_NoFileStopsRun ==
    [][/\ DraftLeavesNoFile =>
             /\ ppc' = "returned"
             /\ \E i \in 1..Len(events') : events'[i].type = "error"
             /\ \A i \in 1..Len(events') :
                   events'[i].type \notin {"workflow", "execution_report",
                                           "workflow_saved", "connector_built"}
             /\ \A i \in Entries("agent")' : log'[i].purpose = "draft"
             /\ Entries("parse")' = {} /\ Entries("execute")' = {}
             /\ pc' = "idle"
             /\ workflow_store' = workflow_store
       /\ ppc = "returned" => ppc' = "returned"]_vars

\* a run whose drafting session ran and left no workflow.json
C14_Witness ==
    /\ ppc = "returned"
    /\ workflow_file.kind = "absent"
    /\ Len(log) = 1
    /\ log[1] = AgentRun("draft", 0, NoMarkdown)
    /\ Len(events) >= 2
    /\ events[Len(events) - 1].type = "error"

-----------------------------------------------------------------------------
(* C15..C17: the simulator services *)

\* the direct calls made of service.action
CallsOf(service, action) ==
    {i \in 1..Len(calls) : calls[i].service = service /\ calls[i].action = action}

\* the call raised ServiceError with error_type precondition_failed
PreconditionFailed(c) ==
    c.exc = "ServiceError" /\ c.error_type = "precondition_failed"

\* C15: invite_user returns only if the call gave an email for which a Google
\* account existed at the call, grant_repo_access only if it gave a username
\* that was an org member at the call; every other call of the two (also one
\* with a missing or empty email or username) raises precondition_failed.
C15_PreconditionsEnforced ==
    /\ \A i \in CallsOf("slack", "invite_user") :
          LET c == calls[i]
              met == /\ "email" \in DOMAIN c.params
                     /\ Truthy(c.params["email"])
                     /\ Has(c.before.google_accounts, c.params["email"])
          IN  IF met THEN c.exc = "none" ELSE PreconditionFailed(c)
    /\ \A i \in CallsOf("github", "grant_repo_access") :
          LET c == calls[i]
              met == /\ "username" \in DOMAIN c.params
                     /\ Truthy(c.params["username"])
                     /\ Has(c.before.github_members, c.params["username"])
          IN  IF met THEN c.exc = "none" ELSE PreconditionFailed(c)

\* C16: every Google account of the SimulatorState carries the name of an
\* existing HR employee record; a provision_account call returns only if an
\* employee record with the given name (default "Unknown") existed at the
\* call, and raises precondition_failed, leaving no account, if none did.
C16_AccountsHaveEmployees ==
    /\ \A i \in 1..Len(state.google_accounts) :
          HasEmployeeNamed(state, state.google_accounts[i].v.name)
    /\ \A i \in CallsOf("google", "provision_account") :
          LET c == calls[i]
              employee_name == Get(c.params, "employee_name", StrV(S("Unknown")))
          IN  IF HasEmployeeNamed(c.before, employee_name)
              THEN c.exc = "none"
              ELSE PreconditionFailed(c) /\ c.logged = <<>>

\* provision_account was refused for a name without an HR record, and an
\* account was provisioned for an employee created before
C16_Witness ==
    /\ state.google_accounts # <<>>
    /\ \E i \in CallsOf("google", "provision_account") : PreconditionFailed(calls[i])
    /\ \E i \in CallsOf("google", "provision_account") : calls[i].exc = "none"

\* C17: every simulator call that returns has appended exactly one TraceStep,
\* of status success, carrying the node id, the service and the action of the
\* call (also create_epic, which delegates to create_issue); a call that
\* raises appends none.
C17_OneSuccessStepPerAction ==
    \A i \in 1..Len(calls) :
        LET c == calls[i]
        IN  IF c.exc = "none"
            THEN /\ Len(c.logged) = 1
                 /\ c.logged[1].status = "success"
                 /\ c.logged[1].node_id = c.node_id
                 /\ c.logged[1].service = c.service
                 /\ c.logged[1].action = c.action
            ELSE c.logged = <<>>

-----------------------------------------------------------------------------
(* C18, C19: the workflow store *)

\* the workflows stored for an id under a team, as of the files `files`
StoredFor(files, workflow_id, team) ==
    {f \in TeamDir(files, team) : f.id = workflow_id}

\* the stored workflow of the numerically highest version
Latest(stored) == CHOOSE f \in stored : \A g \in stored : g.version <= f.version

\* C18: load(id, team) returns the stored workflow of id with the numerically
\* highest version (None if none is stored), and list_by_team(team) returns
\* one workflow per stored id, its highest version.
C18_LoadAndListGiveHighestVersion ==
    \A i \in 1..Len(log) :
        LET o == log[i]
            stored == StoredFor(o.before, o.workflow_id, o.team)
            ids == {f.id : f \in TeamDir(o.before, o.team)}
        IN  /\ o.op = "load" =>
                  o.result[1] = IF stored = {} THEN NoneWorkflow
                                ELSE SomeWorkflow(Latest(stored))
            /\ o.op = "list_by_team" =>
                  /\ Len(o.result) = Cardinality(ids)
                  /\ \A id \in ids :
                        \E j \in 1..Len(o.result) :
                           o.result[j] = Latest(StoredFor(o.before, id, o.team))

\* C19: no step of a planner run changes or removes a file the store holds:
\* a save adds the file of a new version.
C19_SaveNeverOverwrites ==
    [][\A i \in 1..Len(workflow_store.files) :
          /\ Has(workflow_store'.files, workflow_store.files[i].k)
          /\ Lookup(workflow_store'.files, workflow_store.files[i].k) =
                workflow_store.files[i].v]_vars

-----------------------------------------------------------------------------
(* C20: the service layer *)

\* the service names known to the simulator, the built-in registry or the
\* custom directory
KnownServices == DOMAIN SimActions \cup _BUILTIN_REGISTRY \cup custom_connectors

\* the connector class a name resolves to: a built-in one, or the one loaded
\* from the custom directory ("none" if there is none or it does not load)
ConnectorOf(name) ==
    IF name \in _BUILTIN_REGISTRY THEN "conn"
    ELSE IF name \in custom_connectors /\ name # "crm" THEN "custom"
    ELSE "none"

\* C20: in hybrid or real mode the services map holds, for each known service
\* name: its connector if the service is configured; else the simulator
\* service if there is one; else its connector; a name with neither (a custom
\* file that yields no connector) is not in the map.  In simulator mode the
\* map is exactly the simulator services.
C20_ServiceLayerRouting ==
    IF settings.connector_mode = "simulator"
    THEN services = [name \in DOMAIN SimActions |-> "sim"]
    ELSE \A name \in KnownServices :
            CASE ConnectorOf(name) # "none" /\ name \in settings.configured ->
                    name \in DOMAIN services /\ services[name] = ConnectorOf(name)
              [] name \in DOMAIN SimActions ->
                    name \in DOMAIN services /\ services[name] = "sim"
              [] ConnectorOf(name) # "none" ->
                    name \in DOMAIN services /\ services[name] = ConnectorOf(name)
              [] OTHER -> name \notin DOMAIN services

\* a hybrid layer holding all three cases: a configured connector, a simulator
\* fallback and a connector-only custom service, used by a finished execution
C20_Witness ==
    /\ pc = "done"
    /\ settings.connector_mode = "hybrid"
    /\ services["google"] = "conn"
    /\ services["hr"] = "sim"
    /\ "zendesk" \in DOMAIN services /\ services["zendesk"] = "custom"
    /\ "crm" \in custom_connectors

-----------------------------------------------------------------------------
(* C21: the error kinds of the real connectors *)

\* the common mapping of a non-success status to an error kind
CommonMapping(status_code) ==
    CASE status_code = 401 -> "auth_error"
      [] status_code = 403 -> "permission_denied"
      [] status_code = 404 -> "not_found"
      [] status_code = 409 -> "already_exists"
      [] status_code = 429 -> "rate_limit"
      [] OTHER -> "connector_error"

\* C21: every awaited connector action whose request got a non-success
\* response (status 400 or above) raised a ServiceError of the kind the
\* common mapping gives for the status.
C21_ErrorKindsFollowCommonMapping ==
    \A i \in 1..Len(calls) :
       calls[i].resp.status_code >= 400 =>
          /\ calls[i].exc = "ServiceError"
          /\ calls[i].error_type = CommonMapping(calls[i].resp.status_code)

-----------------------------------------------------------------------------
(* C22, C24, C25: the connector registry *)

\* the calls get(name) made so far, by their place in the log
GetsOf(name) == {i \in 1..Len(log) : log[i].op = "get" /\ log[i].name = name}

\* was invalidate(name) called between the entries i and j
InvalidatedBetween(name, i, j) ==
    \E k \in (i + 1)..(j - 1) : log[k].op = "invalidate" /\ log[k].name = name

\* the registry right after the call logged at i
RegAfter(i) == IF i < Len(log) THEN log[i + 1].before ELSE Reg

Constructed(i) == log[i].via \in {"builtin", "custom"}

\* C22: get(name) answers from the cache if the name is cached, else from the
\* built-in map, else from the custom file, else with None.  Two calls
\* get(name) with no invalidate(name) between them return the same instance
\* once one was returned, and construct at most one instance between them;
\* after a None result the name is not in the cache.
C22_GetIsCachedAndOrdered ==
    \A name \in RegistryNames : \A i \in GetsOf(name) :
       LET b == log[i].before
           r == log[i].result
       IN  /\ IF Has(b.cache, name)
              THEN log[i].via = "cache" /\ r = Lookup(b.cache, name)
              ELSE IF name \in DOMAIN b.builtin
              THEN /\ log[i].via = "builtin"
                   /\ r.cls = b.builtin[name] /\ r.id > b.made
              ELSE IF Has(b.dir, name)
              THEN \/ log[i].via = "custom" /\ r.id > b.made
                         /\ r.cls.origin = Lookup(b.dir, name).kind
                   \/ log[i].via = "none" /\ r = NoInstance
              ELSE log[i].via = "none" /\ r = NoInstance
           /\ r = NoInstance => ~Has(RegAfter(i).cache, name)
           /\ \A j \in GetsOf(name) :
                 i < j /\ ~InvalidatedBetween(name, i, j) =>
                    /\ r # NoInstance => log[j].result = r
                    /\ ~(Constructed(i) /\ Constructed(j))

\* a None answer, then the custom file is installed and loaded, then the
\* cached instance is returned again; and an invalidate followed by a new
\* instance
C22_Witness ==
    /\ \E i, j \in GetsOf("zendesk") :
          /\ i < j
          /\ log[i].via = "custom" /\ log[j].via = "cache"
          /\ log[j].result = log[i].result
    /\ \E i \in GetsOf("zendesk") : log[i].result = NoInstance

\* C24: a lookup that interleaves with the install of a connector file sees
\* no file or the complete file, never a partially written one.
C24_InstallIsAtomic ==
    \A i \in 1..Len(log) :
       log[i].op = "get" => log[i].seen \in {"not_read", "absent", "complete"}

\* C25: the built-in registry map holds what the import of the built-in
\* connector modules put there, whatever was loaded since.
C25_BuiltinRegistryNeverMutated ==
    builtin_registry = [name \in _BUILTIN_REGISTRY |-> BuiltinClass]

-----------------------------------------------------------------------------
(* C23: the connector validator *)

\* C23: an empty error list is returned only for a file that parses, holds
\* exactly one class of the expected name, whose class body assigns the
\* requested service_name, which defines every required action and both
\* classmethods as functions of the class, and whose module-level code runs
\* without error.
C23_ValidOnlyIfWellFormed ==
    ppc = "validated" /\ log[1].errors = <<>> =>
       /\ connector_file.parses
       /\ connector_file.classes = 1
       /\ connector_file.service_name = "class_equal"
       /\ \A i \in 1..Len(RequiredActions) :
             RequiredActions[i] \in connector_file.methods
       /\ \A i \in 1..Len(Classmethods) : Classmethods[i] \in connector_file.methods
       /\ connector_file.module_runs

-----------------------------------------------------------------------------
(* C26: the HTTP transports of a planner run *)

\* C26: when the run has ended, every httpx.AsyncClient made for it has been
\* closed (and none was closed while the run still used it: a client is
\* "open" or "closed", and closing is the only way to "closed").
C26_TransportsClosedAtEnd ==
    Terminated => \A i \in 1..Len(http_clients) : http_clients[i] = "closed"

-----------------------------------------------------------------------------
(* C27, C28, C29: the sandboxed command *)

\* the threads inside the guarded part of _kill_pg
Killing == {t \in {"main", "out", "err"} : th[t] = "kill_wait"}

Sent(sig) == {i \in 1..Len(signals) : signals[i].sig = sig}

\* C27: at most one thread is inside the termination path at a time, the
\* process group gets SIGTERM at most once, SIGKILL only from the thread that
\* sent SIGTERM and holds the lock, and no signal is sent once the child has
\* been reaped.
C27_TerminationIsExclusive ==
    /\ Cardinality(Killing) <= 1
    /\ \A t \in Killing : wait_lock = t
    /\ Cardinality(Sent("SIGTERM")) <= 1
    /\ \A i \in Sent("SIGKILL") :
          \E j \in Sent("SIGTERM") : j < i /\ signals[j].by = signals[i].by
    /\ \A i \in 1..Len(signals) : signals[i].leader = "running"

\* a reader that reached its cap is inside _kill_pg, one second short of its
\* SIGKILL, while the caller's timeout has fired and it waits for the lock
C27_Witness ==
    /\ th["main"] = "kill"
    /\ \E t \in Readers : th[t] = "kill_wait" /\ total[t] >= half
    /\ Cardinality(Sent("SIGTERM")) = 1

\* the seconds the teardown may take: proc.wait(timeout=1) and the two
\* join(timeout=2)
TeardownGrace == KILL_WAIT + 2 * JOIN_WAIT

\* C28: the call has returned once the clamped timeout and the teardown
\* grace have passed, and if the command was still running when the timeout
\* passed, what it returned is the timeout result with the group torn down.
C28_ReturnsWithinTimeout ==
    /\ now > proc.timeout + TeardownGrace => cmd_result.returned
    /\ cmd_result.returned /\ now >= proc.timeout =>
          cmd_result.timed_out \/ ~GroupAlive

\* C29: the stdout and the stderr returned are at most MAX_OUTPUT_BYTES // 2
\* bytes each; a reader that reached its cap and left _read_capped has had
\* the process group terminated, and the result of such a call, unless it is
\* the timeout result, is marked truncated.
C29_OutputCappedAndTruncationMarked ==
    /\ cmd_result.stdout <= half /\ cmd_result.stderr <= half
    /\ cmd_result.stdout + cmd_result.stderr <= MAX_OUTPUT_BYTES
    /\ \A t \in Readers :
          /\ th[t] = "done" /\ total[t] >= half => ~GroupAlive
          /\ cmd_result.returned /\ ~cmd_result.timed_out /\ total[t] >= half =>
                cmd_result.was_truncated

-----------------------------------------------------------------------------
(* C30: what two service layers have in common *)

\* the objects of the i-th layer assembled
LayerRefs(i) ==
    {layers[i].state, layers[i].trace, layers[i].http, layers[i].cache} \ {0}

\* C30: any two service layers, of two runs or of two attempts of one run,
\* have no SimulatorState, ExecutionTrace, connector cache or HTTP client in
\* common, and nothing in the objects of a layer was put there by another.
C30_LayersShareNothing ==
    /\ \A i, j \in 1..Len(layers) : i # j => LayerRefs(i) \cap LayerRefs(j) = {}
    /\ \A i \in 1..Len(layers) :
          /\ heap[layers[i].state].kind = "SimulatorState"
          /\ heap[layers[i].trace].kind = "ExecutionTrace"
          /\ \A o \in LayerRefs(i) : heap[o].written_by \subseteq {i}

\* two runs are under way, one of them on its second layer, and the services
\* of all three layers have recorded steps
C30_Witness ==
    /\ \A r \in Runs : run_layer[r] # 0
    /\ \E i, j, k \in 1..Len(layers) :
          /\ i < j /\ layers[i].run = layers[j].run /\ layers[k].run # layers[i].run
          /\ \A l \in {i, j, k} :
                /\ heap[layers[l].trace].written_by = {l}
                /\ heap[layers[l].state].written_by = {l}

-----------------------------------------------------------------------------
(* C31: no node-level retries *)

CallsTo(id) == {i \in 1..Len(calls) : calls[i].node_id = id}

-----------------------------------------------------------------------------
(* C32: substitution in one pass *)

\* C32: a string parameter reaches the action with each template of the
\* node's own text replaced once; text that a replacement put in, such as a
\* global parameter whose value is {{other}} or {{node.key}}, is in the
\* resolved value as it stands.
C32_SubstitutionIsSinglePass ==
    \A c \in 1..Len(calls) :
        LET node == node_map(workflow, calls[c].node_id)
        IN  \A i \in 1..Len(node.parameters) :
               LET raw == node.parameters[i].value
               IN  IsStr(raw) /\ HasBraces(raw.t) =>
                      calls[c].params[node.parameters[i].name].t =
                          OnePass(raw.t, workflow.parameters, calls[c].outs)

-----------------------------------------------------------------------------
(* C33: the failure kind in the error string of a failed step *)

\* the kinds the executor and the simulator raise
DispatchKinds == {"precondition_failed", "unknown_service", "unknown_action"}

\* the error strings of a TraceStep that hold the tag: of the formats the
\* executor writes, "[error_type] message" of an injected failure does; the
\* other is str(e), the message of the exception
RuleMessages == {"Too many requests", "Duplicate record"}
Tagged(tag) == {S("[" \o tag \o "] " \o m) : m \in RuleMessages}

\* C33: the error string of the failed step of a node that failed a
\* simulator precondition, named a service absent from the map or named an
\* action the service does not have holds precondition_failed,
\* unknown_service or unknown_action.
C33_ErrorStringNamesKind ==
    \A i \in 1..Len(trace), f \in 1..Len(failures) :
        /\ trace[i].status = "failed"
        /\ failures[f].node_id = trace[i].node_id
        /\ failures[f].error_type \in DispatchKinds
        => trace[i].error \in Tagged(failures[f].error_type)

-----------------------------------------------------------------------------
(* C34: edges and depends_on of an accepted workflow *)

\* C34: a workflow the parse step accepted has as its set of edges the set
\* of (dep, node.id) pairs of the depends_on lists of its nodes.
C34_EdgesMirrorDependsOn ==
    \A i \in 1..Len(log) :
        log[i].v.accepted => log[i].v.edges = log[i].v.deps

-----------------------------------------------------------------------------
(* C35: two executions of one workflow *)

-----------------------------------------------------------------------------
(* C36: a connector built during a run *)

\* the services for which connector_built was emitted
BuiltServices == {events[i].about : i \in {j \in 1..Len(events) :
                                              events[j].type = "connector_built"}}

\* C36: a service for which the builder emitted connector_built is in the
\* Services map the executor works on, and no node of that service fails
\* with unknown_service.
C36_BuiltConnectorServesItsNodes ==
    /\ BuiltServices \subseteq DOMAIN services
    /\ \A f \in 1..Len(failures) :
          failures[f].error_type = "unknown_service" =>
             node_map(workflow, failures[f].node_id).service \notin BuiltServices

-----------------------------------------------------------------------------
(* C37: what a failed precondition leaves behind *)

\* the step just taken recorded a precondition failure
PreconditionJustFailed ==
    /\ Len(failures') = Len(failures) + 1
    /\ failures'[Len(failures')].exc = "ServiceError"
    /\ failures'[Len(failures')].error_type = "precondition_failed"

\* C37: the dispatch of a node whose simulator action raises a precondition
\* error leaves SimulatorState as it was, adds to the trace the one failed
\* step of that node and nothing else, and records no output for the node.
C37_FailedPreconditionChangesNothing ==
    [][PreconditionJustFailed =>
          /\ state' = state
          /\ Len(trace') = Len(trace) + 1
          /\ SubSeq(trace', 1, Len(trace)) = trace
          /\ trace'[Len(trace')].node_id = failures'[Len(failures')].node_id
          /\ trace'[Len(trace')].status = "failed"
          /\ node_outputs' = node_outputs
          /\ ~Has(node_outputs', failures'[Len(failures')].node_id)]_vars

\* invite_user raised its precondition error on a state that earlier nodes
\* had written to, and so did provision_account
C37_Witness ==
    /\ state # SimulatorState
    /\ \E f \in 1..Len(failures), g \in 1..Len(failures) :
          /\ failures[f].error_type = "precondition_failed"
          /\ failures[g].error_type = "precondition_failed"
          /\ node_map(workflow, failures[f].node_id).action = "invite_user"
          /\ node_map(workflow, failures[g].node_id).action = "provision_account"
          /\ HasStatus(failures[f].node_id, "failed")

\* C38: delete(id, team) removes every stored version of workflow id and
\* nothing else: afterwards no version of id is stored and load(id, team) is
\* None, the stored versions of every other id and of every other team are as
\* they were, and the result is True exactly when a version of id was stored.
C38_DeleteRemovesOnlyThatWorkflow ==
    \A i \in 1..Len(log) :
        LET o == log[i]
            after == workflow_store.files
        IN  o.op = "delete" =>
              /\ StoredFor(after, o.workflow_id, o.team) = {}
              /\ load(after, o.workflow_id, o.team) = NoneWorkflow
              /\ \A id \in StoreIds \ {o.workflow_id} :
                    StoredFor(after, id, o.team) = StoredFor(o.before, id, o.team)
              /\ \A team \in StoreTeams \ {o.team} :
                    TeamDir(after, team) = TeamDir(o.before, team)
              /\ o.result[1] = (StoredFor(o.before, o.workflow_id, o.team) # {})

\* the kinds of object a node can be dispatched to: a simulator service, a
\* built-in connector, a generated connector
ServiceImplementations == {"sim", "conn", "custom"}

\* C39: every entry of the service map is a simulator service or a connector,
\* and a dispatched node whose tag is the name of no simulator service and of
\* no registered connector fails with unknown_service.
C39_ServiceMapHoldsOnlyServices ==
    /\ \A name \in DOMAIN services : services[name] \in ServiceImplementations
    /\ \A i \in 1..Len(trace) :
          LET tag == node_map(workflow, trace[i].node_id).service
          IN  /\ trace[i].status # "skipped"
              /\ tag \notin DOMAIN SimServices \cup list_available(custom_connectors)
              =>
                 /\ trace[i].status = "failed"
                 /\ \E f \in 1..Len(failures) :
                       /\ failures[f].node_id = trace[i].node_id
                       /\ failures[f].error_type = "unknown_service"

\* the emails recorded as members of a channel of SimulatorState
ChannelMembers(st, channel_name) ==
    IF Has(st.slack_channels, channel_name)
    THEN {Lookup(st.slack_channels, channel_name)[i] :
             i \in 1..Len(Lookup(st.slack_channels, channel_name))}
    ELSE {}

\* C40: no simulator action removes an email from the members of a channel:
\* a member recorded by invite_user stays a member after every later action.
C40_ChannelMembershipIsMonotone ==
    [][\A c \in 1..Len(state.slack_channels) :
          ChannelMembers(state, state.slack_channels[c].k)
             \subseteq ChannelMembers(state', state.slack_channels[c].k)]_vars

====
